---- MODULE Spec2Model ----
(***************************************************************************)
(* A model of the langskin interpreter pipeline: Langskin.run feeds a      *)
(* source text through the Lexer, the Parser, the Resolver and the         *)
(* Interpreter, collecting diagnostics and printed output in a Reporter.   *)
(*                                                                         *)
(* A source text is a sequence of one-character strings.  Indices into it  *)
(* are 0-based, as in the TypeScript code.  AST nodes carry an `id` that   *)
(* stands for the identity of the JavaScript object the parser allocates   *)
(* (the interpreter's `locals` map is keyed by that identity).  Runtime    *)
(* objects (environments, arrays, functions, classes, instances and the    *)
(* Literal wrappers around them) live in a heap and are named by their     *)
(* index, which stands for their reference.                                *)
(***************************************************************************)
EXTENDS Integers, Sequences, FiniteSets, TLC

VARIABLES source, pc, lexer, reporter, parser, statements, resolver, interpreter, ip

vars == <<source, pc, lexer, reporter, parser, statements, resolver, interpreter, ip>>

(***************************************************************************)
(* Text helpers                                                            *)
(***************************************************************************)

\* The "\0" that Lexer.peek and Lexer.peekNext return at the end of input.
NUL == "NUL"

RECURSIVE Join(_)
\* The string made of the characters of cs (a JavaScript string value).
Join(cs) ==
    IF cs = <<>> THEN "" ELSE Head(cs) \o Join(Tail(cs))

\* String.prototype.charAt: "" outside the string.
charAt(src, i) ==
    IF i >= 0 /\ i < Len(src) THEN src[i + 1] ELSE ""

\* String.prototype.substring(a, b) for 0 <= a <= b, as a character sequence.
substring(src, a, b) ==
    SubSeq(src, a + 1, IF b > Len(src) THEN Len(src) ELSE b)

DigitChars == <<"0", "1", "2", "3", "4", "5", "6", "7", "8", "9">>

LowerCase ==
    {"a", "b", "c", "d", "e", "f", "g", "h", "i", "j", "k", "l", "m",
     "n", "o", "p", "q", "r", "s", "t", "u", "v", "w", "x", "y", "z"}

UpperCase ==
    {"A", "B", "C", "D", "E", "F", "G", "H", "I", "J", "K", "L", "M",
     "N", "O", "P", "Q", "R", "S", "T", "U", "V", "W", "X", "Y", "Z"}

DigitValue(char) ==
    (CHOOSE i \in 1..10 : DigitChars[i] = char) - 1

(***************************************************************************)
(* Numbers.  A Number is a JavaScript double; the model keeps it as an     *)
(* exact fraction n/d in lowest terms with d >= 1, which agrees with the   *)
(* double on the integers and short decimals the programs use.             *)
(***************************************************************************)

Abs(i) == IF i < 0 THEN -i ELSE i

RECURSIVE Gcd(_, _)
Gcd(a, b) == IF b = 0 THEN a ELSE Gcd(b, a % b)

Num(n, d) ==
    LET g == Gcd(Abs(n), Abs(d))
        s == IF d < 0 THEN -1 ELSE 1
    IN  IF n = 0 THEN [n |-> 0, d |-> 1]
        ELSE [n |-> s * (n \div g), d |-> s * (d \div g)]

IntNum(i) == [n |-> i, d |-> 1]

NumAdd(a, b) == Num(a.n * b.d + b.n * a.d, a.d * b.d)
NumSub(a, b) == Num(a.n * b.d - b.n * a.d, a.d * b.d)
NumMul(a, b) == Num(a.n * b.n, a.d * b.d)
NumDiv(a, b) == Num(a.n * b.d, a.d * b.n)
NumLess(a, b) == a.n * b.d < b.n * a.d
NumIsInteger(a) == a.d = 1

\* Truncation toward zero of the quotient p/q, q > 0.
TruncDiv(p, q) == IF p >= 0 THEN p \div q ELSE -((-p) \div q)

\* The JavaScript remainder a % b (b # 0): a - b * trunc(a / b), which takes
\* the sign of the dividend.
NumRem(a, b) ==
    LET q == NumDiv(a, b)
        t == TruncDiv(q.n, q.d)
    IN  NumSub(a, NumMul(b, IntNum(t)))

\* Digits printed after the decimal point of a non-integer Number.
MaxFractionDigits == 17

RECURSIVE NatToString(_)
NatToString(i) ==
    IF i < 10 THEN DigitChars[i + 1]
    ELSE NatToString(i \div 10) \o DigitChars[(i % 10) + 1]

RECURSIVE FractionDigits(_, _, _)
\* The decimal digits of r/d (0 <= r < d), at most k of them.
FractionDigits(r, d, k) ==
    IF r = 0 \/ k = 0 THEN ""
    ELSE DigitChars[((r * 10) \div d) + 1] \o FractionDigits((r * 10) % d, d, k - 1)

\* Number.prototype.toString: integers print without a fraction.
NumberToString(a) ==
    LET m == Abs(a.n)
        whole == NatToString(m \div a.d)
        frac == FractionDigits(m % a.d, a.d, MaxFractionDigits)
    IN  (IF a.n < 0 THEN "-" ELSE "")
        \o whole \o (IF frac = "" THEN "" ELSE "." \o frac)

RECURSIVE parseDigits(_, _)
\* The value of a digit sequence, continuing from acc.
parseDigits(cs, acc) ==
    IF cs = <<>> THEN acc ELSE parseDigits(Tail(cs), acc * 10 + DigitValue(Head(cs)))

RECURSIVE Pow10(_)
Pow10(k) == IF k = 0 THEN 1 ELSE 10 * Pow10(k - 1)

\* parseFloat on the text of a Number token: digits, or digits "." digits.
parseFloat(cs) ==
    LET dots == {i \in 1..Len(cs) : cs[i] = "."}
    IN  IF dots = {} THEN IntNum(parseDigits(cs, 0))
        ELSE LET p == CHOOSE i \in dots : TRUE
                 fr == SubSeq(cs, p + 1, Len(cs))
             IN  Num(parseDigits(SubSeq(cs, 1, p - 1) \o fr, 0), Pow10(Len(fr)))

(***************************************************************************)
(* Diagnostics (errors/error.ts)                                           *)
(***************************************************************************)

\* LangError.lexerError: no lexeme is attached.
lexerError(message, line, column) ==
    [phase |-> "Lexical", message |-> message, line |-> line,
     column |-> column, lexeme |-> "undefined"]

syntaxError(message, token) ==
    [phase |-> "Syntax", message |-> message, line |-> token.line,
     column |-> token.column, lexeme |-> token.lexeme]

runtimeError(message, token) ==
    [phase |-> "Runtime", message |-> message, line |-> token.line,
     column |-> token.column, lexeme |-> token.lexeme]

\* Bind(E, LAMBDA x : B) is LET x == E IN B: the value of E, computed once, is
\* named x in B.  The results of the calls a method makes are bound this way.
Bind(x, F(_)) == F(x)

(***************************************************************************)
(* Lexer (lex/lexer.ts, lex/token.ts).  A lexer is the record              *)
(* [start, current, line, lineStart, tokens]; an operation that may report *)
(* returns [lx |-> the lexer after it, errs |-> the errors it reported].   *)
(***************************************************************************)

NoLiteral == [t |-> "null"]

Token(type, lexeme, literal, line, column) ==
    [type |-> type, lexeme |-> lexeme, literal |-> literal,
     line |-> line, column |-> column]

NewLexer ==
    [start |-> 0, current |-> 0, line |-> 1, lineStart |-> 0, tokens |-> <<>>]

tokenTypeFromKeyword(keyword) ==
    CASE keyword = "and" -> "And"
      [] keyword = "class" -> "Class"
      [] keyword = "if" -> "If"
      [] keyword = "else" -> "Else"
      [] keyword = "elif" -> "ElseIf"
      [] keyword = "false" -> "False"
      [] keyword = "for" -> "For"
      [] keyword = "fun" -> "Fun"
      [] keyword = "nil" -> "Nil"
      [] keyword = "or" -> "Or"
      [] keyword = "print" -> "Print"
      [] keyword = "return" -> "Return"
      [] keyword = "super" -> "Super"
      [] keyword = "this" -> "This"
      [] keyword = "true" -> "True"
      [] keyword = "let" -> "Var"
      [] keyword = "while" -> "While"
      [] keyword = "break" -> "Break"
      [] keyword = "continue" -> "Continue"
      [] keyword = "inherits" -> "Inherits"
      [] keyword = "not" -> "Bang"
      [] OTHER -> "null"

column(lx) == lx.start - lx.lineStart

end(src, lx) == lx.current >= Len(src)

\* Lexer.advance moves on even at the end of the source.
advance(lx) == [lx EXCEPT !.current = @ + 1]

\* Lexer.matchNext: whether the next character is `expected`; the caller
\* advances when it is.
matchNext(src, lx, expected) ==
    ~end(src, lx) /\ charAt(src, lx.current) = expected

peek(src, lx) ==
    IF end(src, lx) THEN NUL ELSE charAt(src, lx.current)

peekNext(src, lx) ==
    IF lx.current + 1 >= Len(src) THEN NUL ELSE charAt(src, lx.current + 1)

addToken(src, lx, type, literal) ==
    [lx EXCEPT !.tokens =
        Append(@, Token(type, Join(substring(src, lx.start, lx.current)),
                        literal, lx.line, column(lx)))]

isDigit(char) == \E i \in 1..10 : DigitChars[i] = char

isAlpha(char) == char \in LowerCase \cup UpperCase \cup {"_"}

isAlphaNumeric(char) == isAlpha(char) \/ isDigit(char)

RECURSIVE stringBody(_, _)
\* The while loop of Lexer.string.
stringBody(src, lx) ==
    IF peek(src, lx) # "\"" /\ ~end(src, lx)
    THEN Bind(IF peek(src, lx) = "\\" THEN advance(lx) ELSE lx, LAMBDA a :
             Bind( IF peek(src, a) = "\n"
                  THEN [a EXCEPT !.line = @ + 1, !.lineStart = a.current + 1]
                  ELSE a, LAMBDA b :
             stringBody(src, advance(b))))
    ELSE lx

\* Lexer.string with a String token for the text up to the end of the source
\* when the closing quote is missing.
stringUnterminatedToken(src, lx0) ==
    Bind(stringBody(src, lx0), LAMBDA lx :
        IF end(src, lx)
        THEN [lx |-> addToken(src, lx, "String",
                              [t |-> "string",
                               v |-> substring(src, lx.start + 1, Len(src))]),
              errs |-> <<lexerError("Unterminated string.", lx.line, column(lx))>>]
        ELSE Bind(advance(lx), LAMBDA closed :
                 Bind(substring(src, closed.start + 1, closed.current - 1), LAMBDA value :
                 [lx |-> addToken(src, closed, "String", [t |-> "string", v |-> value]),
                  errs |-> <<>>])))

string(src, lx0) ==
    Bind(stringBody(src, lx0), LAMBDA lx :
        IF end(src, lx)
        THEN [lx |-> lx,
              errs |-> <<lexerError("Unterminated string.", lx.line, column(lx))>>]
        ELSE Bind(advance(lx), LAMBDA closed :
                 Bind(substring(src, closed.start + 1, closed.current - 1), LAMBDA value :
                 [lx |-> addToken(src, closed, "String", [t |-> "string", v |-> value]),
                  errs |-> <<>>])))

RECURSIVE digits(_, _)
\* while (isDigit(peek())) advance();
digits(src, lx) ==
    IF isDigit(peek(src, lx)) THEN digits(src, advance(lx)) ELSE lx

number(src, lx0) ==
    Bind(digits(src, lx0), LAMBDA a :
        Bind( IF peek(src, a) = "." /\ isDigit(peekNext(src, a))
             THEN digits(src, advance(a))
             ELSE a, LAMBDA b :
        Bind(parseFloat(substring(src, b.start, b.current)), LAMBDA value :
        addToken(src, b, "Number", [t |-> "number", v |-> value]))))

RECURSIVE alphaNumerics(_, _)
\* while (isAlphaNumeric(peek())) advance();
alphaNumerics(src, lx) ==
    IF isAlphaNumeric(peek(src, lx)) THEN alphaNumerics(src, advance(lx)) ELSE lx

identifier(src, lx0) ==
    Bind(alphaNumerics(src, lx0), LAMBDA lx :
        Bind(Join(substring(src, lx.start, lx.current)), LAMBDA text :
        Bind(tokenTypeFromKeyword(text), LAMBDA type :
        IF type = "null" THEN addToken(src, lx, "Identifier", NoLiteral)
        ELSE addToken(src, lx, type, NoLiteral))))

RECURSIVE lineComment(_, _)
\* while (peek() !== "\n" && !end()) advance();
lineComment(src, lx) ==
    IF peek(src, lx) # "\n" /\ ~end(src, lx) THEN lineComment(src, advance(lx)) ELSE lx

\* addToken after an optional second character: `two` when the next
\* character is `second`, else `one`.
oneOrTwo(src, lx, second, two, one) ==
    IF matchNext(src, lx, second) THEN addToken(src, advance(lx), two, NoLiteral)
    ELSE addToken(src, lx, one, NoLiteral)

SingleCharTokens ==
    [c \in {"(", ")", "{", "}", "]", "[", ",", ".", ";", "%"} |->
        CASE c = "(" -> "LeftParen"
          [] c = ")" -> "RightParen"
          [] c = "{" -> "LeftBrace"
          [] c = "}" -> "RightBrace"
          [] c = "]" -> "RightSquare"
          [] c = "[" -> "LeftSquare"
          [] c = "," -> "Comma"
          [] c = "." -> "Dot"
          [] c = ";" -> "Semicolon"
          [] c = "%" -> "Modulo"]

\* Lexer.scanToken, entered with start = current.
scanToken(src, lx0) ==
    LET char == charAt(src, lx0.current)
        lx == advance(lx0)
        quiet(l) == [lx |-> l, errs |-> <<>>]
    IN  CASE char \in DOMAIN SingleCharTokens ->
                quiet(addToken(src, lx, SingleCharTokens[char], NoLiteral))
          [] char = "-" ->
                IF matchNext(src, lx, "-")
                THEN quiet(addToken(src, advance(lx), "Decrement", NoLiteral))
                ELSE quiet(oneOrTwo(src, lx, "=", "MinusEqual", "Minus"))
          [] char = "+" ->
                IF matchNext(src, lx, "+")
                THEN quiet(addToken(src, advance(lx), "Increment", NoLiteral))
                ELSE quiet(oneOrTwo(src, lx, "=", "PlusEqual", "Plus"))
          [] char = "*" -> quiet(oneOrTwo(src, lx, "=", "StarEqual", "Star"))
          [] char = "!" -> quiet(oneOrTwo(src, lx, "=", "BangEqual", "Bang"))
          [] char = "=" -> quiet(oneOrTwo(src, lx, "=", "EqualEqual", "Equal"))
          [] char = "<" -> quiet(oneOrTwo(src, lx, "=", "LessEqual", "Less"))
          [] char = ">" -> quiet(oneOrTwo(src, lx, "=", "GreaterEqual", "Greater"))
          [] char = "&" ->
                IF matchNext(src, lx, "&")
                THEN quiet(addToken(src, advance(lx), "And", NoLiteral))
                ELSE quiet(lx)
          [] char = "|" ->
                IF matchNext(src, lx, "|")
                THEN quiet(addToken(src, advance(lx), "Or", NoLiteral))
                ELSE quiet(lx)
          [] char = "/" ->
                IF matchNext(src, lx, "/") THEN quiet(lineComment(src, advance(lx)))
                ELSE quiet(oneOrTwo(src, lx, "=", "SlashEqual", "Slash"))
          [] char \in {" ", "\r", "\t"} -> quiet(lx)
          [] char = "\n" ->
                quiet([lx EXCEPT !.line = @ + 1, !.lineStart = lx.current])
          [] char = "\"" -> string(src, lx)
          [] OTHER ->
                IF isDigit(char) THEN quiet(number(src, lx))
                ELSE IF isAlpha(char) THEN quiet(identifier(src, lx))
                ELSE [lx |-> lx,
                      errs |-> <<lexerError("Unexpected character.", lx.line, column(lx))>>]

\* The end of Lexer.scanTokens: the Eof token.
eofToken(lx) ==
    Token("Eof", "", NoLiteral, lx.line, lx.current - lx.lineStart)

(***************************************************************************)
(* Parser (parse/parser.ts).  The parser state is [current, nextId]:       *)
(* `current` indexes the token array from 0, `nextId` is the identity the  *)
(* next allocated expression node receives.  Every parsing operation       *)
(* returns [ok, p, v, err]: with ok, v is what the method returns and p    *)
(* the state after it; without, err is the LangError it throws.            *)
(***************************************************************************)

NullNode == [k |-> "null"]

NoError == [phase |-> "none"]

Ok(p, v) == [ok |-> TRUE, p |-> p, v |-> v, err |-> NoError]

Fail(p, e) == [ok |-> FALSE, p |-> p, v |-> NullNode, err |-> e]

NewParser == [current |-> 0, nextId |-> 1]

\* The state after one `new Expr.X(...)`; the node takes the id p.nextId.
Alloc(p) == [p EXCEPT !.nextId = @ + 1]

\* The Literal a literal expression holds (ast/expr.ts LiteralExpr).
BoolLiteral(b) == [t |-> "Bool", v |-> b]
NilLiteral == [t |-> "Nil"]
NumberLiteral(x) == [t |-> "Number", v |-> x]
StringLiteral(cs) == [t |-> "String", v |-> cs]

literalOfToken(token) ==
    IF token.literal.t = "number" THEN NumberLiteral(token.literal.v)
    ELSE StringLiteral(token.literal.v)

LiteralExpr(p, value) == [k |-> "Literal", id |-> p.nextId, value |-> value]

peekToken(toks, p) == toks[p.current + 1]

previous(toks, p) == toks[p.current]

atEnd(toks, p) == peekToken(toks, p).type = "Eof"

advanceToken(toks, p) ==
    IF ~atEnd(toks, p) THEN [p EXCEPT !.current = @ + 1] ELSE p

check(toks, p, type) ==
    IF atEnd(toks, p) THEN FALSE ELSE peekToken(toks, p).type = type

\* Parser.matchTypes: whether the next token has one of the types; the
\* caller advances (advanceToken) when it does.
matchTypes(toks, p, types) == \E type \in types : check(toks, p, type)

consume(toks, p, type, message) ==
    IF check(toks, p, type)
    THEN Bind(advanceToken(toks, p), LAMBDA q : Ok(q, previous(toks, q)))
    ELSE Fail(p, syntaxError(message, peekToken(toks, p)))

SyncTypes == {"Class", "Fun", "Var", "For", "If", "While", "Print", "Return"}

RECURSIVE synchronizeLoop(_, _)
synchronizeLoop(toks, p) ==
    IF atEnd(toks, p) THEN p
    ELSE IF previous(toks, p).type = "Semicolon" THEN p
    ELSE IF peekToken(toks, p).type \in SyncTypes THEN p
    ELSE synchronizeLoop(toks, advanceToken(toks, p))

synchronize(toks, p) == synchronizeLoop(toks, advanceToken(toks, p))

\* The parameter and argument limit of functionDeclaration and finishCall.
MaxArgs == 255

RECURSIVE declaration(_, _)
RECURSIVE statement(_, _)
RECURSIVE block(_, _)
RECURSIVE blockLoop(_, _, _)
RECURSIVE functionDeclaration(_, _, _)
RECURSIVE classMethods(_, _, _)
RECURSIVE expression(_, _)
RECURSIVE assignment(_, _)
RECURSIVE or(_, _)
RECURSIVE orLoop(_, _, _, _)
RECURSIVE and(_, _)
RECURSIVE andLoop(_, _, _, _)
RECURSIVE equality(_, _)
RECURSIVE equalityLoop(_, _, _, _)
RECURSIVE comparsion(_, _)
RECURSIVE comparsionLoop(_, _, _, _)
RECURSIVE term(_, _)
RECURSIVE termLoop(_, _, _, _)
RECURSIVE factor(_, _)
RECURSIVE factorLoop(_, _, _, _)
RECURSIVE unary(_, _)
RECURSIVE call(_, _)
RECURSIVE callLoop(_, _, _)
RECURSIVE finishCall(_, _, _)
RECURSIVE arguments(_, _, _)
RECURSIVE primary(_, _)
RECURSIVE arrayExpr(_, _)
RECURSIVE arrayValues(_, _, _)

RECURSIVE parameters(_, _, _)
\* The while (true) loop of functionDeclaration.
parameters(toks, p, params) ==
    IF Len(params) >= MaxArgs
    THEN Fail(p, syntaxError("Can't have more than 255 parameters.", peekToken(toks, p)))
    ELSE Bind(consume(toks, p, "Identifier", "Expect parameter name."), LAMBDA c :
             IF ~c.ok THEN c
             ELSE IF matchTypes(toks, c.p, {"Comma"})
                  THEN parameters(toks, advanceToken(toks, c.p), Append(params, c.v))
                  ELSE Ok(c.p, Append(params, c.v)))

functionDeclaration(toks, p, kind) ==
    Bind(consume(toks, p, "Identifier", "Expect " \o kind \o " name."), LAMBDA name :
        IF ~name.ok THEN name ELSE
    Bind(consume(toks, name.p, "LeftParen", "Expect '(' after " \o kind \o " name."), LAMBDA lp :
        IF ~lp.ok THEN lp ELSE
    Bind(         IF ~check(toks, lp.p, "RightParen")
                  THEN parameters(toks, lp.p, <<>>)
                  ELSE Ok(lp.p, <<>>), LAMBDA params :
        IF ~params.ok THEN params ELSE
    Bind(consume(toks, params.p, "RightParen", "Expect ')' after parameters."), LAMBDA rp :
        IF ~rp.ok THEN rp ELSE
    Bind(consume(toks, rp.p, "LeftBrace", "Expect '{' before " \o kind \o " body."), LAMBDA lb :
        IF ~lb.ok THEN lb ELSE
    Bind(block(toks, lb.p), LAMBDA body :
        IF ~body.ok THEN body
        ELSE Ok(body.p, [k |-> "Function", name |-> name.v,
                         params |-> params.v, body |-> body.v])))))))

classMethods(toks, p, methods) ==
    IF ~check(toks, p, "RightBrace") /\ ~atEnd(toks, p)
    THEN Bind(functionDeclaration(toks, p, "method"), LAMBDA m :
             IF ~m.ok THEN m ELSE classMethods(toks, m.p, Append(methods, m.v)))
    ELSE Ok(p, methods)

classDeclaration(toks, p) ==
    Bind(consume(toks, p, "Identifier", "Expect 'class' name"), LAMBDA name :
        IF ~name.ok THEN name ELSE
    Bind(
            IF matchTypes(toks, name.p, {"Inherits"})
            THEN Bind(    consume(toks, advanceToken(toks, name.p), "Identifier",
                                  "Expect parent 'class' name"), LAMBDA c :
                     IF ~c.ok THEN c
                     ELSE Ok(Alloc(c.p), [k |-> "Variable", id |-> c.p.nextId,
                                          name |-> previous(toks, c.p)]))
            ELSE Ok(name.p, NullNode), LAMBDA super :
        IF ~super.ok THEN super ELSE
    Bind(consume(toks, super.p, "LeftBrace", "Expect '{' before 'class' body."), LAMBDA lb :
        IF ~lb.ok THEN lb ELSE
    Bind(classMethods(toks, lb.p, <<>>), LAMBDA methods :
        IF ~methods.ok THEN methods ELSE
    Bind(consume(toks, methods.p, "RightBrace", "Expect '}' after 'class' body."), LAMBDA rb :
        IF ~rb.ok THEN rb
        ELSE Ok(rb.p, [k |-> "Class", name |-> name.v, methods |-> methods.v,
                       superclass |-> super.v]))))))

varDeclaration(toks, p) ==
    Bind(consume(toks, p, "Identifier", "Expect variable name."), LAMBDA name :
        IF ~name.ok THEN name ELSE
    Bind(       IF matchTypes(toks, name.p, {"Equal"})
                THEN expression(toks, advanceToken(toks, name.p))
                ELSE Ok(name.p, NullNode), LAMBDA init :
        IF ~init.ok THEN init ELSE
    Bind(consume(toks, init.p, "Semicolon", "Expect ';' after variable declaration."), LAMBDA semi :
        IF ~semi.ok THEN semi
        ELSE Ok(semi.p, [k |-> "Var", name |-> name.v, initializer |-> init.v]))))

declaration(toks, p) ==
    Bind(      IF matchTypes(toks, p, {"Class"})
               THEN classDeclaration(toks, advanceToken(toks, p))
               ELSE IF matchTypes(toks, p, {"Fun"})
               THEN functionDeclaration(toks, advanceToken(toks, p), "function")
               ELSE IF matchTypes(toks, p, {"Var"})
               THEN varDeclaration(toks, advanceToken(toks, p))
               ELSE statement(toks, p), LAMBDA res :
        IF res.ok THEN res ELSE Fail(synchronize(toks, res.p), res.err))

expressionStatement(toks, p) ==
    Bind(expression(toks, p), LAMBDA value :
        IF ~value.ok THEN value ELSE
    Bind(consume(toks, value.p, "Semicolon", "Expect ';' after expression."), LAMBDA semi :
        IF ~semi.ok THEN semi
        ELSE Ok(semi.p, [k |-> "Expression", expression |-> value.v])))

whileStatement(toks, p) ==
    Bind(consume(toks, p, "LeftParen", "Expect '(' after 'while'"), LAMBDA lp :
        IF ~lp.ok THEN lp ELSE
    Bind(expression(toks, lp.p), LAMBDA condition :
        IF ~condition.ok THEN condition ELSE
    Bind(consume(toks, condition.p, "RightParen", "Expect ')' after 'while' condition."), LAMBDA rp :
        IF ~rp.ok THEN rp ELSE
    Bind(statement(toks, rp.p), LAMBDA body :
        IF ~body.ok THEN body
        ELSE Ok(body.p, [k |-> "While", condition |-> condition.v, body |-> body.v])))))

returnStatement(toks, p) ==
    Bind(previous(toks, p), LAMBDA keyword :
        Bind(    IF ~check(toks, p, "Semicolon") THEN expression(toks, p)
                 ELSE Ok(p, NullNode), LAMBDA value :
        IF ~value.ok THEN value ELSE
    Bind(consume(toks, value.p, "Semicolon", "Expect ';' after 'return' value"), LAMBDA semi :
        IF ~semi.ok THEN semi
        ELSE Ok(semi.p, [k |-> "Return", keyword |-> keyword, value |-> value.v]))))

printStatement(toks, p) ==
    Bind(expression(toks, p), LAMBDA value :
        IF ~value.ok THEN value ELSE
    Bind(consume(toks, value.p, "Semicolon", "Expect ';' after value."), LAMBDA semi :
        IF ~semi.ok THEN semi
        ELSE Ok(semi.p, [k |-> "Print", expression |-> value.v])))

ifStatement(toks, p) ==
    Bind(consume(toks, p, "LeftParen", "Expect '(' after 'if'"), LAMBDA lp :
        IF ~lp.ok THEN lp ELSE
    Bind(expression(toks, lp.p), LAMBDA condition :
        IF ~condition.ok THEN condition ELSE
    Bind(consume(toks, condition.p, "RightParen", "Expect ')' after 'if' condition."), LAMBDA rp :
        IF ~rp.ok THEN rp ELSE
    Bind(statement(toks, rp.p), LAMBDA then :
        IF ~then.ok THEN then ELSE
    Bind(             IF matchTypes(toks, then.p, {"Else"})
                      THEN statement(toks, advanceToken(toks, then.p))
                      ELSE Ok(then.p, NullNode), LAMBDA elseBranch :
        IF ~elseBranch.ok THEN elseBranch
        ELSE Ok(elseBranch.p, [k |-> "If", condition |-> condition.v,
                               thenBranch |-> then.v, elseBranch |-> elseBranch.v]))))))

\* Parser.forStatement with the increment put before the body in the while
\* body.
forStatementIncrementFirst(toks, p) ==
    Bind(consume(toks, p, "LeftParen", "Expect '(' after 'for'"), LAMBDA lp :
        IF ~lp.ok THEN lp ELSE
    Bind(
            IF matchTypes(toks, lp.p, {"Semicolon"})
            THEN Ok(advanceToken(toks, lp.p), NullNode)
            ELSE IF matchTypes(toks, lp.p, {"Var"})
            THEN varDeclaration(toks, advanceToken(toks, lp.p))
            ELSE expressionStatement(toks, lp.p), LAMBDA initializer :
        IF ~initializer.ok THEN initializer ELSE
    Bind(            IF ~check(toks, initializer.p, "Semicolon")
                     THEN expression(toks, initializer.p)
                     ELSE Ok(initializer.p, NullNode), LAMBDA condition :
        IF ~condition.ok THEN condition ELSE
    Bind(consume(toks, condition.p, "Semicolon", "Expect ';' after 'for' condition."), LAMBDA semi :
        IF ~semi.ok THEN semi ELSE
    Bind(            IF ~check(toks, semi.p, "RightParen")
                     THEN expression(toks, semi.p)
                     ELSE Ok(semi.p, NullNode), LAMBDA increment :
        IF ~increment.ok THEN increment ELSE
    Bind(consume(toks, increment.p, "RightParen", "Expect ')' after 'for' clauses."), LAMBDA rp :
        IF ~rp.ok THEN rp ELSE
    Bind(statement(toks, rp.p), LAMBDA body :
        IF ~body.ok THEN body ELSE
    Bind(          IF increment.v.k # "null"
                   THEN [k |-> "Block",
                         statements |-> <<[k |-> "Expression",
                                           expression |-> increment.v], body.v>>]
                   ELSE body.v, LAMBDA withInc :
        Bind(IF condition.v.k = "null" THEN Alloc(body.p) ELSE body.p, LAMBDA p1 :
        Bind(             IF condition.v.k = "null"
                          THEN LiteralExpr(body.p, BoolLiteral(TRUE))
                          ELSE condition.v, LAMBDA whileCondition :
        Bind([k |-> "While", condition |-> whileCondition, body |-> withInc], LAMBDA loop :
        IF initializer.v.k # "null"
        THEN Ok(p1, [k |-> "Block", statements |-> <<initializer.v, loop>>])
        ELSE Ok(p1, loop))))))))))))

forStatement(toks, p) ==
    Bind(consume(toks, p, "LeftParen", "Expect '(' after 'for'"), LAMBDA lp :
        IF ~lp.ok THEN lp ELSE
    Bind(
            IF matchTypes(toks, lp.p, {"Semicolon"})
            THEN Ok(advanceToken(toks, lp.p), NullNode)
            ELSE IF matchTypes(toks, lp.p, {"Var"})
            THEN varDeclaration(toks, advanceToken(toks, lp.p))
            ELSE expressionStatement(toks, lp.p), LAMBDA initializer :
        IF ~initializer.ok THEN initializer ELSE
    Bind(            IF ~check(toks, initializer.p, "Semicolon")
                     THEN expression(toks, initializer.p)
                     ELSE Ok(initializer.p, NullNode), LAMBDA condition :
        IF ~condition.ok THEN condition ELSE
    Bind(consume(toks, condition.p, "Semicolon", "Expect ';' after 'for' condition."), LAMBDA semi :
        IF ~semi.ok THEN semi ELSE
    Bind(            IF ~check(toks, semi.p, "RightParen")
                     THEN expression(toks, semi.p)
                     ELSE Ok(semi.p, NullNode), LAMBDA increment :
        IF ~increment.ok THEN increment ELSE
    Bind(consume(toks, increment.p, "RightParen", "Expect ')' after 'for' clauses."), LAMBDA rp :
        IF ~rp.ok THEN rp ELSE
    Bind(statement(toks, rp.p), LAMBDA body :
        IF ~body.ok THEN body ELSE
    Bind(          IF increment.v.k # "null"
                   THEN [k |-> "Block",
                         statements |-> <<body.v, [k |-> "Expression",
                                                   expression |-> increment.v]>>]
                   ELSE body.v, LAMBDA withInc :
        Bind(IF condition.v.k = "null" THEN Alloc(body.p) ELSE body.p, LAMBDA p1 :
        Bind(             IF condition.v.k = "null"
                          THEN LiteralExpr(body.p, BoolLiteral(TRUE))
                          ELSE condition.v, LAMBDA whileCondition :
        Bind([k |-> "While", condition |-> whileCondition, body |-> withInc], LAMBDA loop :
        IF initializer.v.k # "null"
        THEN Ok(p1, [k |-> "Block", statements |-> <<initializer.v, loop>>])
        ELSE Ok(p1, loop))))))))))))

statement(toks, p) ==
    IF matchTypes(toks, p, {"For"}) THEN forStatement(toks, advanceToken(toks, p))
    ELSE IF matchTypes(toks, p, {"If"}) THEN ifStatement(toks, advanceToken(toks, p))
    ELSE IF matchTypes(toks, p, {"Print"}) THEN printStatement(toks, advanceToken(toks, p))
    ELSE IF matchTypes(toks, p, {"Return"}) THEN returnStatement(toks, advanceToken(toks, p))
    ELSE IF matchTypes(toks, p, {"While"}) THEN whileStatement(toks, advanceToken(toks, p))
    ELSE IF matchTypes(toks, p, {"LeftBrace"})
         THEN Bind(block(toks, advanceToken(toks, p)), LAMBDA b :
                  IF ~b.ok THEN b ELSE Ok(b.p, [k |-> "Block", statements |-> b.v]))
    ELSE expressionStatement(toks, p)

blockLoop(toks, p, stmts) ==
    IF ~check(toks, p, "RightBrace") /\ ~atEnd(toks, p)
    THEN Bind(declaration(toks, p), LAMBDA d :
             IF ~d.ok THEN d ELSE blockLoop(toks, d.p, Append(stmts, d.v)))
    ELSE Ok(p, stmts)

block(toks, p) ==
    Bind(blockLoop(toks, p, <<>>), LAMBDA stmts :
        IF ~stmts.ok THEN stmts ELSE
    Bind(consume(toks, stmts.p, "RightBrace", "Expect '}' after block."), LAMBDA rb :
        IF ~rb.ok THEN rb ELSE Ok(rb.p, stmts.v)))

expression(toks, p) == assignment(toks, p)

\* The three accepted assignment targets of Parser.assignment: the node that
\* assigns `value` to the target `expr`, or the syntax error at `equals`.
assignmentTarget(p, expr, value, equals, bracket) ==
    IF expr.k = "Variable"
    THEN Ok(Alloc(p), [k |-> "Assign", id |-> p.nextId, name |-> expr.name,
                       value |-> value])
    ELSE IF expr.k = "Get"
    THEN Ok(Alloc(p), [k |-> "Set", id |-> p.nextId, object |-> expr.object,
                       name |-> expr.name, value |-> value])
    ELSE IF expr.k = "GetIndexed"
    THEN Ok(Alloc(p), [k |-> "SetIndexed", id |-> p.nextId, object |-> expr.object,
                       index |-> expr.index, value |-> value, bracket |-> bracket])
    ELSE Fail(p, syntaxError("Invalid assignment target.", equals))

\* rewriteOperator giving Plus for every compound and postfix operator.
rewriteOperatorAlwaysPlus(equals) ==
    Token("Plus", "+", NoLiteral, equals.line, equals.column)

\* The binary operator token a compound assignment or a postfix operator is
\* rewritten with (its lexeme is the first character of the operator's).
rewriteOperator(equals) ==
    Bind(       CASE equals.type \in {"PlusEqual", "Increment"} -> "Plus"
                  [] equals.type \in {"MinusEqual", "Decrement"} -> "Minus"
                  [] equals.type = "StarEqual" -> "Star"
                  [] equals.type = "SlashEqual" -> "Slash", LAMBDA type :
        Bind(     CASE type = "Plus" -> "+"
                    [] type = "Minus" -> "-"
                    [] type = "Star" -> "*"
                    [] type = "Slash" -> "/", LAMBDA lexeme :
        Token(type, lexeme, NoLiteral, equals.line, equals.column)))

IsTarget(expr) == expr.k \in {"Variable", "Get", "GetIndexed"}

\* target = target <operator> value, for a compound or postfix assignment.
rewriteAssignment(p, expr, value, equals) ==
    IF ~IsTarget(expr) THEN Fail(p, syntaxError("Invalid assignment target.", equals))
    ELSE Bind(         [k |-> "Binary", id |-> p.nextId, left |-> expr,
                        operator |-> rewriteOperator(equals), right |-> value], LAMBDA binary :
             assignmentTarget(Alloc(p), expr, binary, equals,
                              IF expr.k = "GetIndexed" THEN expr.bracket ELSE equals))

assignment(toks, p) ==
    Bind(or(toks, p), LAMBDA e :
        IF ~e.ok THEN e
        ELSE IF matchTypes(toks, e.p, {"Equal"})
        THEN Bind(advanceToken(toks, e.p), LAMBDA q :
                 Bind(previous(toks, q), LAMBDA equals :
                 Bind(assignment(toks, q), LAMBDA value :
                 IF ~value.ok THEN value
                 ELSE assignmentTarget(value.p, e.v, value.v, equals, equals))))
        ELSE IF matchTypes(toks, e.p, {"PlusEqual", "MinusEqual", "StarEqual", "SlashEqual"})
        THEN Bind(advanceToken(toks, e.p), LAMBDA q :
                 Bind(previous(toks, q), LAMBDA equals :
                 Bind(assignment(toks, q), LAMBDA value :
                 IF ~value.ok THEN value
                 ELSE rewriteAssignment(value.p, e.v, value.v, equals))))
        ELSE IF matchTypes(toks, e.p, {"Increment", "Decrement"})
        THEN Bind(advanceToken(toks, e.p), LAMBDA q :
                 Bind(previous(toks, q), LAMBDA equals :
                 IF ~IsTarget(e.v)
                 THEN Fail(q, syntaxError("Invalid assignment target.", equals))
                 ELSE rewriteAssignment(Alloc(q), e.v,
                                        LiteralExpr(q, NumberLiteral(IntNum(1))), equals)))
        ELSE e)

\* The loop of a binary level: `left` is the expression built so far (NullNode
\* before the first operand) and `operator` the operator token consumed after
\* it; each iteration parses one operand of the next level.
orLoop(toks, p, left, operator) ==
    Bind(and(toks, p), LAMBDA right :
        IF ~right.ok THEN right ELSE
        Bind(IF left = NullNode THEN right
             ELSE Ok(Alloc(right.p), [k |-> "Logical", id |-> right.p.nextId, left |-> left,
                          operator |-> operator, right |-> right.v]), LAMBDA e :
            IF matchTypes(toks, e.p, {"Or"})
            THEN Bind(advanceToken(toks, e.p), LAMBDA q :
                     orLoop(toks, q, e.v, previous(toks, q)))
            ELSE e))

or(toks, p) == orLoop(toks, p, NullNode, NullNode)

andLoop(toks, p, left, operator) ==
    Bind(equality(toks, p), LAMBDA right :
        IF ~right.ok THEN right ELSE
        Bind(IF left = NullNode THEN right
             ELSE Ok(Alloc(right.p), [k |-> "Logical", id |-> right.p.nextId, left |-> left,
                          operator |-> operator, right |-> right.v]), LAMBDA e :
            IF matchTypes(toks, e.p, {"And"})
            THEN Bind(advanceToken(toks, e.p), LAMBDA q :
                     andLoop(toks, q, e.v, previous(toks, q)))
            ELSE e))

and(toks, p) == andLoop(toks, p, NullNode, NullNode)

Binary(p, left, operator, right) ==
    [k |-> "Binary", id |-> p.nextId, left |-> left, operator |-> operator,
     right |-> right]

equalityLoop(toks, p, left, operator) ==
    Bind(comparsion(toks, p), LAMBDA right :
        IF ~right.ok THEN right ELSE
        Bind(IF left = NullNode THEN right
             ELSE Ok(Alloc(right.p), Binary(right.p, left, operator, right.v)), LAMBDA e :
            IF matchTypes(toks, e.p, {"BangEqual", "EqualEqual"})
            THEN Bind(advanceToken(toks, e.p), LAMBDA q :
                     equalityLoop(toks, q, e.v, previous(toks, q)))
            ELSE e))

equality(toks, p) == equalityLoop(toks, p, NullNode, NullNode)

comparsionLoop(toks, p, left, operator) ==
    Bind(term(toks, p), LAMBDA right :
        IF ~right.ok THEN right ELSE
        Bind(IF left = NullNode THEN right
             ELSE Ok(Alloc(right.p), Binary(right.p, left, operator, right.v)), LAMBDA e :
            IF matchTypes(toks, e.p, {"Greater", "GreaterEqual", "Less", "LessEqual"})
            THEN Bind(advanceToken(toks, e.p), LAMBDA q :
                     comparsionLoop(toks, q, e.v, previous(toks, q)))
            ELSE e))

comparsion(toks, p) == comparsionLoop(toks, p, NullNode, NullNode)

termLoop(toks, p, left, operator) ==
    Bind(factor(toks, p), LAMBDA right :
        IF ~right.ok THEN right ELSE
        Bind(IF left = NullNode THEN right
             ELSE Ok(Alloc(right.p), Binary(right.p, left, operator, right.v)), LAMBDA e :
            IF matchTypes(toks, e.p, {"Minus", "Plus", "Modulo"})
            THEN Bind(advanceToken(toks, e.p), LAMBDA q :
                     termLoop(toks, q, e.v, previous(toks, q)))
            ELSE e))

term(toks, p) == termLoop(toks, p, NullNode, NullNode)

factorLoop(toks, p, left, operator) ==
    Bind(unary(toks, p), LAMBDA right :
        IF ~right.ok THEN right ELSE
        Bind(IF left = NullNode THEN right
             ELSE Ok(Alloc(right.p), Binary(right.p, left, operator, right.v)), LAMBDA e :
            IF matchTypes(toks, e.p, {"Slash", "Star"})
            THEN Bind(advanceToken(toks, e.p), LAMBDA q :
                     factorLoop(toks, q, e.v, previous(toks, q)))
            ELSE e))

factor(toks, p) == factorLoop(toks, p, NullNode, NullNode)

unary(toks, p) ==
    IF matchTypes(toks, p, {"Bang", "Minus"})
    THEN Bind(advanceToken(toks, p), LAMBDA q :
             Bind(unary(toks, q), LAMBDA right :
             IF ~right.ok THEN right
             ELSE Ok(Alloc(right.p),
                     [k |-> "Unary", id |-> right.p.nextId,
                      operator |-> previous(toks, q), right |-> right.v])))
    ELSE call(toks, p)

callLoop(toks, p, expr) ==
    IF matchTypes(toks, p, {"LeftParen"})
    THEN Bind(finishCall(toks, advanceToken(toks, p), expr), LAMBDA c :
             IF ~c.ok THEN c ELSE callLoop(toks, c.p, c.v))
    ELSE IF matchTypes(toks, p, {"Dot"})
    THEN Bind(       consume(toks, advanceToken(toks, p), "Identifier",
                             "Expect property name after '.'"), LAMBDA name :
             IF ~name.ok THEN name
             ELSE callLoop(toks, Alloc(name.p),
                           [k |-> "Get", id |-> name.p.nextId, object |-> expr,
                            name |-> name.v]))
    ELSE IF matchTypes(toks, p, {"LeftSquare"})
    THEN Bind(primary(toks, advanceToken(toks, p)), LAMBDA index :
             IF ~index.ok THEN index ELSE
             Bind(peekToken(toks, index.p), LAMBDA bracket :
                 Bind(   [k |-> "GetIndexed", id |-> index.p.nextId, object |-> expr,
                          index |-> index.v, bracket |-> bracket], LAMBDA node :
                 Bind( consume(toks, Alloc(index.p), "RightSquare",
                               "Expect ']' after index."), LAMBDA rs :
                 IF ~rs.ok THEN rs ELSE callLoop(toks, rs.p, node)))))
    ELSE Ok(p, expr)

call(toks, p) ==
    Bind(primary(toks, p), LAMBDA e : IF ~e.ok THEN e ELSE callLoop(toks, e.p, e.v))

\* The while (true) loop of finishCall.
arguments(toks, p, args) ==
    IF Len(args) >= MaxArgs
    THEN Fail(p, syntaxError("Can't have more than 255 arguments.", peekToken(toks, p)))
    ELSE Bind(expression(toks, p), LAMBDA a :
             IF ~a.ok THEN a
             ELSE IF matchTypes(toks, a.p, {"Comma"})
                  THEN arguments(toks, advanceToken(toks, a.p), Append(args, a.v))
                  ELSE Ok(a.p, Append(args, a.v)))

finishCall(toks, p, callee) ==
    Bind(       IF ~check(toks, p, "RightParen") THEN arguments(toks, p, <<>>)
                ELSE Ok(p, <<>>), LAMBDA args :
        IF ~args.ok THEN args ELSE
    Bind(consume(toks, args.p, "RightParen", "Expect ')' after arguments."), LAMBDA paren :
        IF ~paren.ok THEN paren
        ELSE Ok(Alloc(paren.p), [k |-> "Call", id |-> paren.p.nextId,
                                 callee |-> callee, paren |-> paren.v, args |-> args.v])))

primary(toks, p) ==
    Bind(advanceToken(toks, p), LAMBDA q :
        IF matchTypes(toks, p, {"False"})
        THEN Ok(Alloc(q), LiteralExpr(q, BoolLiteral(FALSE)))
        ELSE IF matchTypes(toks, p, {"True"})
        THEN Ok(Alloc(q), LiteralExpr(q, BoolLiteral(TRUE)))
        ELSE IF matchTypes(toks, p, {"Nil"})
        THEN Ok(Alloc(q), LiteralExpr(q, NilLiteral))
        ELSE IF matchTypes(toks, p, {"Number", "String"})
        THEN Ok(Alloc(q), LiteralExpr(q, literalOfToken(previous(toks, q))))
        ELSE IF matchTypes(toks, p, {"Super"})
        THEN Bind(previous(toks, q), LAMBDA keyword :
                 Bind(consume(toks, q, "Dot", "Expect '.' after 'super'"), LAMBDA dot :
                 IF ~dot.ok THEN dot ELSE
                 Bind(         consume(toks, dot.p, "Identifier",
                                       "Expect super class method name"), LAMBDA method :
                     IF ~method.ok THEN method
                     ELSE Ok(Alloc(method.p),
                             [k |-> "Super", id |-> method.p.nextId,
                              keyword |-> keyword, method |-> method.v]))))
        ELSE IF matchTypes(toks, p, {"This"})
        THEN Ok(Alloc(q), [k |-> "This", id |-> q.nextId, keyword |-> previous(toks, q)])
        ELSE IF matchTypes(toks, p, {"Identifier"})
        THEN Ok(Alloc(q), [k |-> "Variable", id |-> q.nextId, name |-> previous(toks, q)])
        ELSE IF matchTypes(toks, p, {"LeftSquare"})
        THEN arrayExpr(toks, q)
        ELSE IF matchTypes(toks, p, {"LeftParen"})
        THEN Bind(expression(toks, q), LAMBDA e :
                 IF ~e.ok THEN e ELSE
                 Bind(consume(toks, e.p, "RightParen", "Expect ')' after expression."), LAMBDA rp :
                     IF ~rp.ok THEN rp
                     ELSE Ok(Alloc(rp.p), [k |-> "Grouping", id |-> rp.p.nextId,
                                           expression |-> e.v])))
        ELSE Fail(p, syntaxError("Expect expression.", peekToken(toks, p))))

\* The while (true) loop of arrayExpr.
arrayValues(toks, p, values) ==
    Bind(expression(toks, p), LAMBDA v :
        IF ~v.ok THEN v
        ELSE IF matchTypes(toks, v.p, {"Comma"})
             THEN arrayValues(toks, advanceToken(toks, v.p), Append(values, v.v))
             ELSE Ok(v.p, Append(values, v.v)))

arrayExpr(toks, p) ==
    Bind(         IF ~check(toks, p, "RightSquare") THEN arrayValues(toks, p, <<>>)
                  ELSE Ok(p, <<>>), LAMBDA values :
        IF ~values.ok THEN values ELSE
    Bind(consume(toks, values.p, "RightSquare", "Expect ']' after array elements"), LAMBDA rs :
        IF ~rs.ok THEN rs
        ELSE Ok(Alloc(rs.p), [k |-> "Array", id |-> rs.p.nextId, values |-> values.v])))

(***************************************************************************)
(* Resolver (class Resolver).  The resolver state is                       *)
(* [scopes, currentFunction, currentClass, locals]: scopes is the stack of *)
(* Map<string, boolean> (the innermost last), and locals is the            *)
(* interpreter's Map<Expr, number>, keyed by node id, which                *)
(* Interpreter.resolve fills.  An operation returns [ok, rs, err].         *)
(***************************************************************************)

NewResolver ==
    [scopes |-> <<>>, currentFunction |-> "undefined",
     currentClass |-> "undefined", locals |-> <<>>]

ROk(rs) == [ok |-> TRUE, rs |-> rs, err |-> NoError]

RFail(rs, e) == [ok |-> FALSE, rs |-> rs, err |-> e]

\* Map.prototype.set on a map kept as a function.
MapSet(map, key, value) == (key :> value) @@ map

EmptyMap == <<>>

beginScope(rs) == [rs EXCEPT !.scopes = Append(@, EmptyMap)]

endScope(rs) == [rs EXCEPT !.scopes = SubSeq(@, 1, Len(@) - 1)]

peekScope(rs) == rs.scopes[Len(rs.scopes)]

scopeIsEmpty(rs) == Len(rs.scopes) = 0

\* scopes[scopes.length - 1].set(name, value)
scopeSet(rs, name, value) ==
    [rs EXCEPT !.scopes[Len(rs.scopes)] = MapSet(@, name, value)]

\* Interpreter.resolve: locals.set(expr, depth).
resolve(rs, expr, depth) ==
    [rs EXCEPT !.locals = MapSet(@, expr.id, depth)]

\* Resolver.declare without the test for a name the scope already holds.
declareAgain(rs, name) ==
    IF Len(rs.scopes) = 0 THEN ROk(rs)
    ELSE ROk(scopeSet(rs, name.lexeme, FALSE))

declare(rs, name) ==
    IF Len(rs.scopes) = 0 THEN ROk(rs)
    ELSE IF name.lexeme \in DOMAIN peekScope(rs)
    THEN RFail(rs, runtimeError("Variable with name '" \o name.lexeme
                                \o "' already declared in this scope.", name))
    ELSE ROk(scopeSet(rs, name.lexeme, FALSE))

define(rs, name) ==
    IF Len(rs.scopes) = 0 THEN rs ELSE scopeSet(rs, name.lexeme, TRUE)

RECURSIVE resolveLocalLoop(_, _, _, _)
\* The for loop of resolveLocalExpr, from scope index i (0-based) down to 0.
resolveLocalLoop(rs, expr, name, i) ==
    IF i < 0 THEN rs
    ELSE resolveLocalLoop(
            IF name.lexeme \in DOMAIN rs.scopes[i + 1]
            THEN resolve(rs, expr, Len(rs.scopes) - 1 - i)
            ELSE rs,
            expr, name, i - 1)

resolveLocalExpr(rs, expr, name) ==
    resolveLocalLoop(rs, expr, name, Len(rs.scopes) - 1)

RECURSIVE resolveStmt(_, _)
RECURSIVE resolveExpr(_, _)
RECURSIVE resolveStmts(_, _)
RECURSIVE resolveExprs(_, _)
RECURSIVE resolveMethods(_, _, _)

RECURSIVE declareParams(_, _)
\* for (const param of stmt.params) { declare(param); define(param); }
declareParams(rs, params) ==
    IF params = <<>> THEN ROk(rs)
    ELSE Bind(declare(rs, Head(params)), LAMBDA d :
             IF ~d.ok THEN d
             ELSE declareParams(define(d.rs, Head(params)), Tail(params)))

\* resolveFunction without the restore of the enclosing function tag.
resolveFunctionNoRestore(rs, stmt, type) ==
    Bind(     declareParams(beginScope([rs EXCEPT !.currentFunction = type]),
                            stmt.params), LAMBDA params :
        IF ~params.ok THEN params ELSE
    Bind(resolveStmts(params.rs, stmt.body), LAMBDA body :
        IF ~body.ok THEN body
        ELSE ROk(endScope(body.rs))))

resolveFunction(rs, stmt, type) ==
    Bind(rs.currentFunction, LAMBDA enclosingFunc :
        Bind(     declareParams(beginScope([rs EXCEPT !.currentFunction = type]),
                                stmt.params), LAMBDA params :
        IF ~params.ok THEN params ELSE
    Bind(resolveStmts(params.rs, stmt.body), LAMBDA body :
        IF ~body.ok THEN body
        ELSE ROk([endScope(body.rs) EXCEPT !.currentFunction = enclosingFunc]))))

resolveStmts(rs, stmts) ==
    IF stmts = <<>> THEN ROk(rs)
    ELSE Bind(resolveStmt(rs, Head(stmts)), LAMBDA r :
             IF ~r.ok THEN r ELSE resolveStmts(r.rs, Tail(stmts)))

\* Resolving expressions one after the other.
resolveExprs(rs, exprs) ==
    IF exprs = <<>> THEN ROk(rs)
    ELSE Bind(resolveExpr(rs, Head(exprs)), LAMBDA r :
             IF ~r.ok THEN r ELSE resolveExprs(r.rs, Tail(exprs)))

\* The for (const method of stmt.methods) loop of visitClassStmt.
resolveMethods(rs, methods, stmt) ==
    IF methods = <<>> THEN ROk(rs)
    ELSE Bind(Head(methods), LAMBDA method :
             Bind(IF method.name.lexeme = "init" THEN "Initializer" ELSE "Method", LAMBDA type :
             Bind( IF method.k # "Function"
                  THEN RFail(rs, runtimeError("Method must be a function declaration.",
                                              stmt.name))
                  ELSE resolveFunction(rs, method, type), LAMBDA r :
             IF ~r.ok THEN r ELSE resolveMethods(r.rs, Tail(methods), stmt))))

\* Resolver.visitClassStmt without the restore of the enclosing class tag.
visitClassStmtResolverNoRestore(rs, stmt) ==
    Bind(declare([rs EXCEPT !.currentClass = "Class"], stmt.name), LAMBDA d :
        IF ~d.ok THEN d ELSE
    Bind(define(d.rs, stmt.name), LAMBDA defined :
        Bind(stmt.superclass.k # "null", LAMBDA hasSuper :
        Bind(
            IF ~hasSuper THEN ROk(defined)
            ELSE IF stmt.superclass.k # "Variable"
            THEN RFail(defined, runtimeError("Superclass must be a class name.", stmt.name))
            ELSE IF stmt.name.lexeme = stmt.superclass.name.lexeme
            THEN RFail(defined, runtimeError("A class cannot inherit from itself.",
                                             stmt.superclass.name))
            ELSE Bind(    resolveExpr([defined EXCEPT !.currentClass = "Subclass"],
                                      stmt.superclass), LAMBDA r :
                     IF ~r.ok THEN r
                     ELSE ROk(scopeSet(beginScope(r.rs), "super", TRUE))), LAMBDA super :
        IF ~super.ok THEN super ELSE
    Bind(          resolveMethods(scopeSet(beginScope(super.rs), "this", TRUE),
                                  stmt.methods, stmt), LAMBDA methods :
        IF ~methods.ok THEN methods
        ELSE Bind(endScope(methods.rs), LAMBDA a :
                 ROk(IF hasSuper THEN endScope(a) ELSE a)))))))

visitClassStmtResolver(rs, stmt) ==
    Bind(rs.currentClass, LAMBDA enclosingClass :
        Bind(declare([rs EXCEPT !.currentClass = "Class"], stmt.name), LAMBDA d :
        IF ~d.ok THEN d ELSE
    Bind(define(d.rs, stmt.name), LAMBDA defined :
        Bind(stmt.superclass.k # "null", LAMBDA hasSuper :
        Bind(
            IF ~hasSuper THEN ROk(defined)
            ELSE IF stmt.superclass.k # "Variable"
            THEN RFail(defined, runtimeError("Superclass must be a class name.", stmt.name))
            ELSE IF stmt.name.lexeme = stmt.superclass.name.lexeme
            THEN RFail(defined, runtimeError("A class cannot inherit from itself.",
                                             stmt.superclass.name))
            ELSE Bind(    resolveExpr([defined EXCEPT !.currentClass = "Subclass"],
                                      stmt.superclass), LAMBDA r :
                     IF ~r.ok THEN r
                     ELSE ROk(scopeSet(beginScope(r.rs), "super", TRUE))), LAMBDA super :
        IF ~super.ok THEN super ELSE
    Bind(          resolveMethods(scopeSet(beginScope(super.rs), "this", TRUE),
                                  stmt.methods, stmt), LAMBDA methods :
        IF ~methods.ok THEN methods
        ELSE Bind(endScope(methods.rs), LAMBDA a :
                 Bind(IF hasSuper THEN endScope(a) ELSE a, LAMBDA b :
                 ROk([b EXCEPT !.currentClass = enclosingClass])))))))))

visitReturnStmtResolver(rs, stmt) ==
    IF rs.currentFunction = "undefined"
    THEN RFail(rs, runtimeError("Cannot return from top-level code.", stmt.keyword))
    ELSE IF stmt.value.k # "null"
    THEN IF rs.currentFunction = "Initializer"
         THEN RFail(rs, runtimeError("Cannot return a value from an initializer.",
                                     stmt.keyword))
         ELSE resolveExpr(rs, stmt.value)
    ELSE ROk(rs)

visitVarStmtResolver(rs, stmt) ==
    Bind(declare(rs, stmt.name), LAMBDA d :
        IF ~d.ok THEN d ELSE
    Bind(       IF stmt.initializer.k # "null" THEN resolveExpr(d.rs, stmt.initializer)
                ELSE ROk(d.rs), LAMBDA init :
        IF ~init.ok THEN init ELSE ROk(define(init.rs, stmt.name))))

visitFunctionStmtResolver(rs, stmt) ==
    Bind(declare(rs, stmt.name), LAMBDA d :
        IF ~d.ok THEN d
        ELSE resolveFunction(define(d.rs, stmt.name), stmt, "Function"))

resolveStmt(rs, stmt) ==
    CASE stmt.k = "Block" ->
            Bind(resolveStmts(beginScope(rs), stmt.statements), LAMBDA r :
                IF ~r.ok THEN r ELSE ROk(endScope(r.rs)))
      [] stmt.k = "Expression" -> resolveExpr(rs, stmt.expression)
      [] stmt.k = "Function" -> visitFunctionStmtResolver(rs, stmt)
      [] stmt.k = "If" ->
            Bind(resolveExpr(rs, stmt.condition), LAMBDA c :
                IF ~c.ok THEN c ELSE
                Bind(resolveStmt(c.rs, stmt.thenBranch), LAMBDA t :
                    IF ~t.ok THEN t
                    ELSE IF stmt.elseBranch.k # "null"
                         THEN resolveStmt(t.rs, stmt.elseBranch)
                         ELSE t))
      [] stmt.k = "Print" -> resolveExpr(rs, stmt.expression)
      [] stmt.k = "Return" -> visitReturnStmtResolver(rs, stmt)
      [] stmt.k = "Var" -> visitVarStmtResolver(rs, stmt)
      [] stmt.k = "While" ->
            Bind(resolveExpr(rs, stmt.condition), LAMBDA c :
                IF ~c.ok THEN c ELSE resolveStmt(c.rs, stmt.body))
      [] stmt.k = "Class" -> visitClassStmtResolver(rs, stmt)

visitVariableExprResolver(rs, expr) ==
    IF /\ ~scopeIsEmpty(rs)
       /\ expr.name.lexeme \in DOMAIN peekScope(rs)
       /\ peekScope(rs)[expr.name.lexeme] = FALSE
    THEN RFail(rs, runtimeError("Cannot read local variable '" \o expr.name.lexeme
                                \o "' in its own initializer.", expr.name))
    ELSE ROk(resolveLocalExpr(rs, expr, expr.name))

visitThisExprResolver(rs, expr) ==
    IF rs.currentClass = "undefined"
    THEN RFail(rs, runtimeError("Cannot use 'this' outside of a class.", expr.keyword))
    ELSE ROk(resolveLocalExpr(rs, expr, expr.keyword))

visitSuperExprResolver(rs, expr) ==
    IF rs.currentClass = "undefined"
    THEN RFail(rs, runtimeError("Cannot use 'super' outside of a class.", expr.keyword))
    ELSE IF rs.currentClass # "Subclass"
    THEN RFail(rs, runtimeError("Cannot use 'super' in a class with no superclass.",
                                expr.keyword))
    ELSE ROk(resolveLocalExpr(rs, expr, expr.keyword))

\* visitArrayExpr returns without visiting the element expressions.
visitArrayExprResolver(rs, expr) == ROk(rs)

resolveExpr(rs, expr) ==
    CASE expr.k = "Assign" ->
            Bind(resolveExpr(rs, expr.value), LAMBDA v :
                IF ~v.ok THEN v ELSE ROk(resolveLocalExpr(v.rs, expr, expr.name)))
      [] expr.k = "Binary" -> resolveExprs(rs, <<expr.left, expr.right>>)
      [] expr.k = "Call" -> resolveExprs(rs, <<expr.callee>> \o expr.args)
      [] expr.k = "Grouping" -> resolveExpr(rs, expr.expression)
      [] expr.k = "Literal" -> ROk(rs)
      [] expr.k = "Array" -> visitArrayExprResolver(rs, expr)
      [] expr.k = "Logical" -> resolveExprs(rs, <<expr.left, expr.right>>)
      [] expr.k = "Unary" -> resolveExpr(rs, expr.right)
      [] expr.k = "Variable" -> visitVariableExprResolver(rs, expr)
      [] expr.k = "Get" -> resolveExpr(rs, expr.object)
      [] expr.k = "Set" -> resolveExprs(rs, <<expr.value, expr.object>>)
      [] expr.k = "This" -> visitThisExprResolver(rs, expr)
      [] expr.k = "Super" -> visitSuperExprResolver(rs, expr)
      [] expr.k = "GetIndexed" -> resolveExprs(rs, <<expr.object, expr.index>>)
      [] expr.k = "SetIndexed" ->
            resolveExprs(rs, <<expr.value, expr.object, expr.index>>)

(***************************************************************************)
(* Runtime objects.  The interpreter state st holds every object the       *)
(* evaluator allocates, each kind in a sequence indexed by reference:      *)
(* envs (Environment: enclosing, values; reference 1 is globals),          *)
(* arrays (the element lists of ArrayLiteral), functions (LangFunction),   *)
(* classes (LangClass), instances (LangInstance).  A CallableLiteral or    *)
(* InstanceLiteral carries w, the identity of the Literal object itself,   *)
(* because isEqual compares those Literal objects with ===.  An            *)
(* ArrayLiteral is created together with its element list, so its ref is   *)
(* its identity.  st.environment is Interpreter.environment, st.locals is  *)
(* Interpreter.locals and st.output lists the strings given to             *)
(* Reporter.write.                                                         *)
(***************************************************************************)

globals == 1

NewInterpreter ==
    [envs |-> <<[enclosing |-> 0, values |-> EmptyMap]>>,
     environment |-> globals, locals |-> EmptyMap,
     arrays |-> <<>>, functions |-> <<>>, classes |-> <<>>, instances |-> <<>>,
     wrappers |-> 0, output |-> <<>>]

\* Outcomes of evaluation: a value, a thrown error, or a thrown ReturnValue.
R(st, v) == [st |-> st, v |-> v, sig |-> "ok", err |-> NoError]

Throw(st, e) == [st |-> st, v |-> NilLiteral, sig |-> "error", err |-> e]

ReturnValue(st, v) == [st |-> st, v |-> v, sig |-> "return", err |-> NoError]

\* new Error(message): not a LangError, so Langskin.run rethrows it.
PlainError(message) == [phase |-> "Error", message |-> message]

\* new Environment(enclosing); the new reference is Len(st.envs) + 1.
NewEnvironment(st, enclosing) ==
    [st EXCEPT !.envs = Append(@, [enclosing |-> enclosing, values |-> EmptyMap])]

Environment_define(st, env, name, value) ==
    [st EXCEPT !.envs[env].values = MapSet(@, name, value)]

RECURSIVE Environment_assign(_, _, _, _)
Environment_assign(st, env, name, value) ==
    IF name.lexeme \in DOMAIN st.envs[env].values
    THEN R(Environment_define(st, env, name.lexeme, value), value)
    ELSE Bind(        IF st.envs[env].enclosing # 0
                      THEN Environment_assign(st, st.envs[env].enclosing, name, value)
                      ELSE R(st, value), LAMBDA inner :
             IF inner.sig # "ok" THEN inner
             ELSE Throw(inner.st, runtimeError("Undefined variable '" \o name.lexeme
                                               \o "'.", name)))

RECURSIVE Environment_get(_, _, _)
Environment_get(st, env, name) ==
    IF name.lexeme \in DOMAIN st.envs[env].values
    THEN R(st, st.envs[env].values[name.lexeme])
    ELSE IF st.envs[env].enclosing # 0
    THEN Environment_get(st, st.envs[env].enclosing, name)
    ELSE Throw(st, runtimeError("Undefined variable '" \o name.lexeme \o "'.", name))

RECURSIVE ancestor(_, _, _)
\* The environment distance hops up from env, or 0 where the chain ends first.
ancestor(st, env, distance) ==
    IF distance = 0 THEN env
    ELSE IF st.envs[env].enclosing # 0
    THEN ancestor(st, st.envs[env].enclosing, distance - 1)
    ELSE 0

getAt(st, env, distance, name) ==
    Bind(ancestor(st, env, distance), LAMBDA environment :
        IF environment = 0
        THEN Throw(st, PlainError("No enclosing environment found at the given distance."))
        ELSE IF name \in DOMAIN st.envs[environment].values
        THEN R(st, st.envs[environment].values[name])
        ELSE Throw(st, PlainError("Undefined variable '" \o name \o "' at distance "
                                  \o NatToString(distance) \o ".")))

assignAt(st, env, distance, name, value) ==
    Bind(ancestor(st, env, distance), LAMBDA environment :
        IF environment = 0
        THEN Throw(st, PlainError("No enclosing environment found at the given distance."))
        ELSE R(Environment_define(st, environment, name.lexeme, value), value))

\* Literal.array(value), Literal.callable(value), Literal.instance(value):
\* each call makes a new Literal object.
ArrayLiteral(st, elements) ==
    R([st EXCEPT !.arrays = Append(@, elements)],
      [t |-> "Array", ref |-> Len(st.arrays) + 1])

CallableLiteral(st, kind, ref) ==
    R([st EXCEPT !.wrappers = @ + 1],
      [t |-> "Callable", kind |-> kind, ref |-> ref, w |-> st.wrappers + 1])

InstanceLiteral(st, ref) ==
    R([st EXCEPT !.wrappers = @ + 1],
      [t |-> "Instance", ref |-> ref, w |-> st.wrappers + 1])

\* new LangFunction(declaration, closure, isInitializer); the new reference
\* is Len(st.functions) + 1.
LangFunction(st, decl, closure, isInitializer) ==
    [st EXCEPT !.functions = Append(@, [declaration |-> decl, closure |-> closure,
                                        isInitializer |-> isInitializer])]

\* bindInstance building a plain function: the bound method forgets that it
\* is an initializer.
bindInstanceNotInitializer(st, func, instance) ==
    Bind(Len(st.envs) + 1, LAMBDA env :
        Bind(InstanceLiteral(NewEnvironment(st, st.functions[func].closure), instance), LAMBDA this :
        LangFunction(Environment_define(this.st, env, "this", this.v),
                     st.functions[func].declaration, env, FALSE)))

bindInstance(st, func, instance) ==
    Bind(Len(st.envs) + 1, LAMBDA env :
        Bind(InstanceLiteral(NewEnvironment(st, st.functions[func].closure), instance), LAMBDA this :
        LangFunction(Environment_define(this.st, env, "this", this.v),
                     st.functions[func].declaration, env,
                     st.functions[func].isInitializer)))

RECURSIVE findMethod(_, _, _)
\* LangClass.findMethod: the function reference, or 0 for undefined.
findMethod(st, class, name) ==
    IF name \in DOMAIN st.classes[class].methods THEN st.classes[class].methods[name]
    ELSE IF st.classes[class].superclass # 0
    THEN findMethod(st, st.classes[class].superclass, name)
    ELSE 0

LangFunction_arity(st, func) == Len(st.functions[func].declaration.params)

\* arity looking for init in the class's own method map only.
LangClass_arityOwnInit(st, class) ==
    IF "init" \in DOMAIN st.classes[class].methods
    THEN LangFunction_arity(st, st.classes[class].methods["init"])
    ELSE 0

LangClass_arity(st, class) ==
    Bind(findMethod(st, class, "init"), LAMBDA initializer :
        IF initializer # 0 THEN LangFunction_arity(st, initializer) ELSE 0)

arity(st, callee) ==
    IF callee.kind = "Class" THEN LangClass_arity(st, callee.ref)
    ELSE LangFunction_arity(st, callee.ref)

\* get looking for a method before the field map.
LangInstance_getMethodFirst(st, instance, name) ==
    Bind(findMethod(st, st.instances[instance].langClass, name.lexeme), LAMBDA method :
        IF method # 0
        THEN CallableLiteral(bindInstance(st, method, instance), "Function",
                             Len(st.functions) + 1)
        ELSE IF name.lexeme \in DOMAIN st.instances[instance].fields
        THEN R(st, st.instances[instance].fields[name.lexeme])
        ELSE Throw(st, runtimeError("Undefined property '" \o name.lexeme \o "'.",
                                    name)))

LangInstance_get(st, instance, name) ==
    IF name.lexeme \in DOMAIN st.instances[instance].fields
    THEN R(st, st.instances[instance].fields[name.lexeme])
    ELSE Bind(findMethod(st, st.instances[instance].langClass, name.lexeme), LAMBDA method :
             IF method # 0
             THEN CallableLiteral(bindInstance(st, method, instance), "Function",
                                  Len(st.functions) + 1)
             ELSE Throw(st, runtimeError("Undefined property '" \o name.lexeme \o "'.",
                                         name)))

LangInstance_set(st, instance, name, value) ==
    [st EXCEPT !.instances[instance].fields = MapSet(@, name.lexeme, value)]

RECURSIVE JoinStrings(_, _)
\* Array.prototype.join on strings.
JoinStrings(strs, sep) ==
    IF strs = <<>> THEN ""
    ELSE IF Len(strs) = 1 THEN strs[1]
    ELSE strs[1] \o sep \o JoinStrings(Tail(strs), sep)

LangFunction_toString(st, func) ==
    Bind(st.functions[func].declaration, LAMBDA decl :
        "<fn " \o decl.name.lexeme \o "("
        \o JoinStrings([i \in 1..Len(decl.params) |-> decl.params[i].lexeme],
                       ", ")
        \o ")>")

RECURSIVE toString(_, _)
\* Literal.toString of each Literal class.
toString(st, literal) ==
    CASE literal.t = "Number" -> NumberToString(literal.v)
      [] literal.t = "String" -> Join(literal.v)
      [] literal.t = "Bool" -> IF literal.v THEN "true" ELSE "false"
      [] literal.t = "Nil" -> "nil"
      [] literal.t = "Array" ->
            "[" \o JoinStrings([i \in 1..Len(st.arrays[literal.ref]) |->
                                   toString(st, st.arrays[literal.ref][i])], ", ") \o "]"
      [] literal.t = "Callable" ->
            IF literal.kind = "Class" THEN st.classes[literal.ref].name
            ELSE LangFunction_toString(st, literal.ref)
      [] literal.t = "Instance" ->
            "<instanceof " \o st.classes[st.instances[literal.ref].langClass].name \o ">"

NumIsZero(a) == a.n = 0

\* isUint without the test literal.value >= 0.
isUintAnySign(literal) == literal.t = "Number" /\ NumIsInteger(literal.v)

isUint(literal) ==
    literal.t = "Number" /\ ~NumLess(literal.v, IntNum(0)) /\ NumIsInteger(literal.v)

isTruthy(st, literal) ==
    CASE literal.t = "Bool" -> literal.v
      [] literal.t = "Nil" -> FALSE
      [] literal.t = "Number" -> ~NumIsZero(literal.v)
      [] literal.t = "Array" -> Len(st.arrays[literal.ref]) > 0
      [] OTHER -> TRUE

\* left === right on two Literal objects of the reference kinds.
SameObject(left, right) ==
    /\ left.t = right.t
    /\ left.ref = right.ref
    /\ (left.t = "Array" \/ left.w = right.w)

isEqual(left, right) ==
    IF left.t = "Nil" /\ right.t = "Nil" THEN TRUE
    ELSE IF left.t = "Nil" \/ right.t = "Nil" THEN FALSE
    ELSE IF left.t = right.t /\ left.t \in {"Number", "String", "Bool"}
    THEN left.v = right.v
    ELSE IF left.t \in {"Number", "String", "Bool"} \/ right.t \in {"Number", "String", "Bool"}
    THEN FALSE
    ELSE SameObject(left, right)

(***************************************************************************)
(* Interpreter (runtime/interpreter.ts), as a big-step evaluator: every    *)
(* visitor takes the state and returns the outcome with the new state.     *)
(***************************************************************************)

\* The double NaN, the result of x % 0.
NaN == [n |-> 0, d |-> 0]

\* The switch of visitBinaryExpr on the operator, given both operands.
binaryOp(st, operator, left, right) ==
    Bind(left.t = "Number" /\ right.t = "Number", LAMBDA numbers :
        Bind(operator.type, LAMBDA type :
        CASE type = "Plus" ->
                IF numbers THEN R(st, NumberLiteral(NumAdd(left.v, right.v)))
                ELSE IF left.t = "String" /\ right.t = "String"
                THEN R(st, StringLiteral(left.v \o right.v))
                ELSE IF left.t = "Array" /\ right.t = "Array"
                THEN ArrayLiteral(st, st.arrays[left.ref] \o st.arrays[right.ref])
                ELSE Throw(st, runtimeError(
                        "Operands must both be numbers, strings or arrays.", operator))
          [] type = "EqualEqual" -> R(st, BoolLiteral(isEqual(left, right)))
          [] type = "BangEqual" -> R(st, BoolLiteral(~isEqual(left, right)))
          [] type \in {"Minus", "Slash", "Star", "Modulo", "Greater", "GreaterEqual",
                       "Less", "LessEqual"} /\ ~numbers ->
                Throw(st, runtimeError("Operands must be numbers.", operator))
          [] type = "Minus" -> R(st, NumberLiteral(NumSub(left.v, right.v)))
          [] type = "Slash" ->
                IF NumIsZero(right.v)
                THEN Throw(st, runtimeError("Division by zero.", operator))
                ELSE R(st, NumberLiteral(NumDiv(left.v, right.v)))
          [] type = "Star" -> R(st, NumberLiteral(NumMul(left.v, right.v)))
          [] type = "Modulo" ->
                R(st, NumberLiteral(IF NumIsZero(right.v) THEN NaN
                                    ELSE NumRem(left.v, right.v)))
          [] type = "Greater" -> R(st, BoolLiteral(NumLess(right.v, left.v)))
          [] type = "GreaterEqual" -> R(st, BoolLiteral(~NumLess(left.v, right.v)))
          [] type = "Less" -> R(st, BoolLiteral(NumLess(left.v, right.v)))
          [] type = "LessEqual" -> R(st, BoolLiteral(~NumLess(right.v, left.v)))
          [] OTHER -> Throw(st, runtimeError("Unknown binary operator.", operator))))

lookupVariable(st, name, expr) ==
    IF expr.id \in DOMAIN st.locals
    THEN getAt(st, st.environment, st.locals[expr.id], name.lexeme)
    ELSE Environment_get(st, globals, name)

\* The branch of visitAssignExpr once the value is known: `if (distance)`
\* is false both for an unresolved expression and for distance 0.
assignVariable(st, expr, resolvedValue) ==
    IF expr.id \in DOMAIN st.locals /\ st.locals[expr.id] # 0
    THEN assignAt(st, st.environment, st.locals[expr.id], expr.name, resolvedValue)
    ELSE Environment_assign(st, globals, expr.name, resolvedValue)

RECURSIVE evaluate(_, _)
RECURSIVE evaluateAll(_, _, _)
RECURSIVE execute(_, _)
RECURSIVE executeAll(_, _)
RECURSIVE executeBlock(_, _, _)
RECURSIVE whileLoop(_, _)
RECURSIVE LangFunction_call(_, _, _, _)
RECURSIVE LangClass_call(_, _, _, _)

\* Evaluating expressions left to right into the list acc.
evaluateAll(st, exprs, acc) ==
    IF exprs = <<>> THEN R(st, acc)
    ELSE Bind(evaluate(st, Head(exprs)), LAMBDA r :
             IF r.sig # "ok" THEN r
             ELSE evaluateAll(r.st, Tail(exprs), Append(acc, r.v)))

\* The statement loop of executeBlock and of interpret.
executeAll(st, stmts) ==
    IF stmts = <<>> THEN R(st, NilLiteral)
    ELSE Bind(execute(st, Head(stmts)), LAMBDA r :
             IF r.sig # "ok" THEN r ELSE executeAll(r.st, Tail(stmts)))

\* executeBlock whose catch leaves the environment alone when an error
\* unwinds: the previous environment is restored only when the statements
\* complete or return.
executeBlockKeepsEnvOnError(st, stmts, env) ==
    Bind(st.environment, LAMBDA previousEnv :
        Bind(executeAll([st EXCEPT !.environment = env], stmts), LAMBDA r :
        IF r.sig # "error" THEN [r EXCEPT !.st.environment = previousEnv] ELSE r))

executeBlock(st, stmts, env) ==
    Bind(st.environment, LAMBDA previousEnv :
        Bind(executeAll([st EXCEPT !.environment = env], stmts), LAMBDA r :
        [r EXCEPT !.st.environment = previousEnv]))

RECURSIVE defineParamsFirstArgument(_, _, _, _)
\* Every parameter bound to the first of the arguments.
defineParamsFirstArgument(st, env, params, args) ==
    IF params = <<>> THEN st
    ELSE defineParamsFirstArgument(
             Environment_define(st, env, Head(params).lexeme, Head(args)),
             env, Tail(params), args)

RECURSIVE defineParams(_, _, _, _)
\* env.define(param.lexeme, args[i]) for each parameter.
defineParams(st, env, params, args) ==
    IF params = <<>> THEN st
    ELSE defineParams(Environment_define(st, env, Head(params).lexeme, Head(args)),
                      env, Tail(params), Tail(args))

\* LangFunction.call running the body over a copy of the closure made at the
\* call: what the body assigns to a captured variable is lost when it returns.
LangFunction_callCopiedClosure(st, func, args, paren) ==
    Bind(st.functions[func], LAMBDA f :
        Bind(Len(st.envs) + 2, LAMBDA env :
        Bind(    [st EXCEPT !.envs = Append(@, st.envs[f.closure])], LAMBDA copied :
        Bind(    defineParams(NewEnvironment(copied, Len(st.envs) + 1), env,
                              f.declaration.params, args), LAMBDA bound :
        Bind(executeBlock(bound, f.declaration.body, env), LAMBDA r :
        IF r.sig = "error" THEN r
        ELSE IF f.isInitializer THEN getAt(r.st, f.closure, 0, "this")
        ELSE IF r.sig = "return" THEN R(r.st, r.v)
        ELSE R(r.st, NilLiteral))))))

LangFunction_call(st, func, args, paren) ==
    Bind(st.functions[func], LAMBDA f :
        Bind(Len(st.envs) + 1, LAMBDA env :
        Bind(    defineParams(NewEnvironment(st, f.closure), env, f.declaration.params,
                              args), LAMBDA bound :
        Bind(executeBlock(bound, f.declaration.body, env), LAMBDA r :
        IF r.sig = "error" THEN r
        ELSE IF f.isInitializer THEN getAt(r.st, f.closure, 0, "this")
        ELSE IF r.sig = "return" THEN R(r.st, r.v)
        ELSE R(r.st, NilLiteral)))))

LangClass_call(st, class, args, paren) ==
    Bind(Len(st.instances) + 1, LAMBDA instance :
        Bind(   [st EXCEPT !.instances = Append(@, [langClass |-> class,
                                                     fields |-> EmptyMap])], LAMBDA made :
        Bind(findMethod(made, class, "init"), LAMBDA initializer :
        Bind( IF initializer # 0
             THEN LangFunction_call(bindInstance(made, initializer, instance),
                                    Len(made.functions) + 1, args, paren)
             ELSE R(made, NilLiteral), LAMBDA r :
        IF r.sig # "ok" THEN r ELSE InstanceLiteral(r.st, instance)))))

\* callee.value.call(interpreter, args, paren)
callValue(st, callee, args, paren) ==
    IF callee.kind = "Class" THEN LangClass_call(st, callee.ref, args, paren)
    ELSE LangFunction_call(st, callee.ref, args, paren)

evaluateIndex(st, indexExpr, bracket) ==
    Bind(evaluate(st, indexExpr), LAMBDA index :
        IF index.sig # "ok" THEN index
        ELSE IF index.v.t # "Number"
        THEN Throw(index.st, runtimeError("Index must be a number.", bracket))
        ELSE IF ~isUint(index.v)
        THEN Throw(index.st, runtimeError("Index must be a non-negative integer.",
                                          bracket))
        ELSE index)

\* The class whose method map super.m searches first.
superLookupFromReceiver(st, superclass, object) == st.instances[object.ref].langClass

\* superclass.value in visitSuperExpr: the search for the method starts at the
\* class stored under "super", whatever the class of the receiver.
superLookupClass(st, superclass, object) == superclass.ref

visitSuperExpr(st, expr) ==
    Bind(                 Throw(st, runtimeError("Undefined 'super' reference.",
                                                 expr.keyword)), LAMBDA undefinedSuper :
        IF ~(expr.id \in DOMAIN st.locals /\ st.locals[expr.id] # 0) THEN undefinedSuper
        ELSE
    Bind(st.locals[expr.id], LAMBDA distance :
        Bind(getAt(st, st.environment, distance, "super"), LAMBDA superclass :
        IF superclass.sig # "ok" THEN superclass
        ELSE IF superclass.v.t # "Callable" THEN undefinedSuper
        ELSE
    Bind(getAt(st, st.environment, distance - 1, "this"), LAMBDA object :
        IF object.sig # "ok" THEN object
        ELSE IF object.v.t # "Instance"
        THEN Throw(st, runtimeError("Undefined 'this' reference.", expr.keyword))
        ELSE IF superclass.v.kind # "Class"
        THEN Throw(st, runtimeError("Superclass is not a class.", expr.keyword))
        ELSE
    Bind(               findMethod(st, superLookupClass(st, superclass.v, object.v),
                                   expr.method.lexeme), LAMBDA actualMethod :
        IF actualMethod = 0
        THEN Throw(st, runtimeError("Undefined property '" \o expr.method.lexeme
                                    \o "'.", expr.method))
        ELSE CallableLiteral(bindInstance(st, actualMethod, object.v.ref), "Function",
                             Len(st.functions) + 1))))))

visitCallExpr(st, expr) ==
    Bind(evaluate(st, expr.callee), LAMBDA callee :
        IF callee.sig # "ok" THEN callee ELSE
    Bind(evaluateAll(callee.st, expr.args, <<>>), LAMBDA args :
        IF args.sig # "ok" THEN args
        ELSE IF callee.v.t # "Callable"
        THEN Throw(args.st, runtimeError("Can only call functions and classes.",
                                         expr.paren))
        ELSE IF Len(args.v) # arity(args.st, callee.v)
        THEN Throw(args.st, runtimeError(
                "Expected " \o NatToString(arity(args.st, callee.v))
                \o " arguments but got " \o NatToString(Len(args.v)) \o ".", expr.paren))
        ELSE callValue(args.st, callee.v, args.v, expr.paren)))

visitGetIndexedExpr(st, expr) ==
    Bind(evaluate(st, expr.object), LAMBDA object :
        IF object.sig # "ok" THEN object ELSE
    Bind(evaluateIndex(object.st, expr.index, expr.bracket), LAMBDA indexLiteral :
        IF indexLiteral.sig # "ok" THEN indexLiteral ELSE
    Bind(indexLiteral.v.v.n, LAMBDA index :
        Bind(          Throw(indexLiteral.st, runtimeError("Index out of bounds.",
                                                           expr.bracket)), LAMBDA outOfBounds :
        IF object.v.t = "Array"
        THEN IF index < 0 \/ index >= Len(indexLiteral.st.arrays[object.v.ref])
             THEN outOfBounds
             ELSE R(indexLiteral.st, indexLiteral.st.arrays[object.v.ref][index + 1])
        ELSE IF object.v.t = "String"
        THEN IF index < 0 \/ index >= Len(object.v.v) THEN outOfBounds
             ELSE R(indexLiteral.st, StringLiteral(<<object.v.v[index + 1]>>))
        ELSE Throw(indexLiteral.st, runtimeError(
                "Only arrays and strings can be indexed.", expr.bracket))))))

\* An indexed assignment that leaves the array it was made through as it
\* was (the element is written to a copy nobody holds).
visitSetIndexedExprOnCopy(st, expr) ==
    Bind(evaluate(st, expr.object), LAMBDA object :
        IF object.sig # "ok" THEN object ELSE
    Bind(evaluate(object.st, expr.value), LAMBDA value :
        IF value.sig # "ok" THEN value
        ELSE IF object.v.t # "Array"
        THEN Throw(value.st, runtimeError("Only arrays can be indexed.", expr.bracket))
        ELSE
    Bind(evaluateIndex(value.st, expr.index, expr.bracket), LAMBDA indexLiteral :
        IF indexLiteral.sig # "ok" THEN indexLiteral
        ELSE IF indexLiteral.v.v.n < 0
                \/ indexLiteral.v.v.n >= Len(indexLiteral.st.arrays[object.v.ref])
        THEN Throw(indexLiteral.st, runtimeError("Index out of bounds.", expr.bracket))
        ELSE R(indexLiteral.st, value.v))))

visitSetIndexedExpr(st, expr) ==
    Bind(evaluate(st, expr.object), LAMBDA object :
        IF object.sig # "ok" THEN object ELSE
    Bind(evaluate(object.st, expr.value), LAMBDA value :
        IF value.sig # "ok" THEN value
        ELSE IF object.v.t # "Array"
        THEN Throw(value.st, runtimeError("Only arrays can be indexed.", expr.bracket))
        ELSE
    Bind(evaluateIndex(value.st, expr.index, expr.bracket), LAMBDA indexLiteral :
        IF indexLiteral.sig # "ok" THEN indexLiteral
        ELSE IF indexLiteral.v.v.n < 0
                \/ indexLiteral.v.v.n >= Len(indexLiteral.st.arrays[object.v.ref])
        THEN Throw(indexLiteral.st, runtimeError("Index out of bounds.", expr.bracket))
        ELSE R([indexLiteral.st EXCEPT
                    !.arrays[object.v.ref][indexLiteral.v.v.n + 1] = value.v],
               value.v))))

visitSetExpr(st, expr) ==
    Bind(evaluate(st, expr.object), LAMBDA object :
        IF object.sig # "ok" THEN object
        ELSE IF object.v.t # "Instance"
        THEN Throw(object.st, runtimeError("Only instances have fields.", expr.name))
        ELSE Bind(evaluate(object.st, expr.value), LAMBDA value :
                 IF value.sig # "ok" THEN value
                 ELSE R(LangInstance_set(value.st, object.v.ref, expr.name, value.v),
                        value.v)))

\* A short circuit that yields the left operand's value, not a Bool.
visitLogicalExprLeftValue(st, expr) ==
    Bind(evaluate(st, expr.left), LAMBDA left :
        IF left.sig # "ok" THEN left
        ELSE IF expr.operator.type = "Or" /\ isTruthy(left.st, left.v)
        THEN R(left.st, left.v)
        ELSE IF expr.operator.type = "And" /\ ~isTruthy(left.st, left.v)
        THEN R(left.st, left.v)
        ELSE evaluate(left.st, expr.right))

visitLogicalExpr(st, expr) ==
    Bind(evaluate(st, expr.left), LAMBDA left :
        IF left.sig # "ok" THEN left
        ELSE IF expr.operator.type = "Or" /\ isTruthy(left.st, left.v)
        THEN R(left.st, BoolLiteral(TRUE))
        ELSE IF expr.operator.type = "And" /\ ~isTruthy(left.st, left.v)
        THEN R(left.st, BoolLiteral(FALSE))
        ELSE evaluate(left.st, expr.right))

visitUnaryExpr(st, expr) ==
    Bind(evaluate(st, expr.right), LAMBDA right :
        IF right.sig # "ok" THEN right
        ELSE IF expr.operator.type = "Minus"
        THEN IF right.v.t = "Number"
             THEN R(right.st, NumberLiteral(Num(-right.v.v.n, right.v.v.d)))
             ELSE Throw(right.st, runtimeError("Operand must be a number.",
                                               expr.operator))
        ELSE IF expr.operator.type = "Bang"
        THEN R(right.st, BoolLiteral(~isTruthy(right.st, right.v)))
        ELSE Throw(right.st, runtimeError("Unknown unary operator.", expr.operator)))

evaluate(st, expr) ==
    CASE expr.k = "Literal" -> R(st, expr.value)
      [] expr.k = "Array" ->
            Bind(evaluateAll(st, expr.values, <<>>), LAMBDA elements :
                IF elements.sig # "ok" THEN elements
                ELSE ArrayLiteral(elements.st, elements.v))
      [] expr.k = "Grouping" -> evaluate(st, expr.expression)
      [] expr.k = "Unary" -> visitUnaryExpr(st, expr)
      [] expr.k = "Binary" ->
            Bind(evaluate(st, expr.left), LAMBDA left :
                IF left.sig # "ok" THEN left ELSE
                Bind(evaluate(left.st, expr.right), LAMBDA right :
                    IF right.sig # "ok" THEN right
                    ELSE binaryOp(right.st, expr.operator, left.v, right.v)))
      [] expr.k = "Variable" -> lookupVariable(st, expr.name, expr)
      [] expr.k = "Assign" ->
            Bind(evaluate(st, expr.value), LAMBDA resolvedValue :
                IF resolvedValue.sig # "ok" THEN resolvedValue
                ELSE assignVariable(resolvedValue.st, expr, resolvedValue.v))
      [] expr.k = "Logical" -> visitLogicalExpr(st, expr)
      [] expr.k = "Call" -> visitCallExpr(st, expr)
      [] expr.k = "Get" ->
            Bind(evaluate(st, expr.object), LAMBDA object :
                IF object.sig # "ok" THEN object
                ELSE IF object.v.t = "Instance"
                THEN LangInstance_get(object.st, object.v.ref, expr.name)
                ELSE Throw(object.st, runtimeError("Only instances have properties.",
                                                   expr.name)))
      [] expr.k = "Set" -> visitSetExpr(st, expr)
      [] expr.k = "This" -> lookupVariable(st, expr.keyword, expr)
      [] expr.k = "Super" -> visitSuperExpr(st, expr)
      [] expr.k = "GetIndexed" -> visitGetIndexedExpr(st, expr)
      [] expr.k = "SetIndexed" -> visitSetIndexedExpr(st, expr)

RECURSIVE defineMethodsGlobalClosure(_, _, _)
\* The method loop closing every method over the global environment instead
\* of the environment of the class statement.
defineMethodsGlobalClosure(st, methods, acc) ==
    IF methods = <<>> THEN [st |-> st, methods |-> acc]
    ELSE Bind(Head(methods), LAMBDA method :
             defineMethodsGlobalClosure(LangFunction(st, method, globals,
                                                     method.name.lexeme = "init"),
                                        Tail(methods),
                                        MapSet(acc, method.name.lexeme, Len(st.functions) + 1)))

RECURSIVE defineMethods(_, _, _)
\* The method loop of visitClassStmt: [st, methods] after a LangFunction is
\* made for each method with the current environment as its closure.
defineMethods(st, methods, acc) ==
    IF methods = <<>> THEN [st |-> st, methods |-> acc]
    ELSE Bind(Head(methods), LAMBDA method :
             defineMethods(LangFunction(st, method, st.environment,
                                        method.name.lexeme = "init"),
                           Tail(methods),
                           MapSet(acc, method.name.lexeme, Len(st.functions) + 1)))

visitClassStmt(st, stmt) ==
    Bind(stmt.superclass.k # "null", LAMBDA hasSuper :
        Bind(                IF hasSuper THEN evaluate(st, stmt.superclass)
                             ELSE R(st, NilLiteral), LAMBDA superclassLiteral :
        IF superclassLiteral.sig # "ok" THEN superclassLiteral
        ELSE IF hasSuper /\ ~(/\ superclassLiteral.v.t = "Callable"
                              /\ superclassLiteral.v.kind = "Class")
        THEN Throw(superclassLiteral.st, runtimeError("Superclass must be a class.",
                                                      stmt.name))
        ELSE
    Bind(IF hasSuper THEN superclassLiteral.v.ref ELSE 0, LAMBDA superclass :
        Bind(       Environment_define(superclassLiteral.st,
                                       superclassLiteral.st.environment,
                                       stmt.name.lexeme, NilLiteral), LAMBDA declared :
        Bind(Len(declared.envs) + 1, LAMBDA superEnv :
        Bind(    CallableLiteral(NewEnvironment(declared, declared.environment),
                                 "Class", superclass), LAMBDA super :
        Bind(    IF hasSuper
                 THEN [Environment_define(super.st, superEnv, "super", super.v)
                          EXCEPT !.environment = superEnv]
                 ELSE declared, LAMBDA inner :
        Bind(defineMethods(inner, stmt.methods, EmptyMap), LAMBDA built :
        Bind(Len(built.st.classes) + 1, LAMBDA langClass :
        Bind(   [built.st EXCEPT
                    !.classes = Append(@, [name |-> stmt.name.lexeme,
                                           methods |-> built.methods,
                                           superclass |-> superclass]),
                    !.environment = IF hasSuper THEN built.st.envs[@].enclosing ELSE @], LAMBDA made :
        Bind(CallableLiteral(made, "Class", langClass), LAMBDA callable :
        Environment_assign(callable.st, callable.st.environment, stmt.name, callable.v))))))))))))

whileLoop(st, stmt) ==
    Bind(evaluate(st, stmt.condition), LAMBDA condition :
        IF condition.sig # "ok" THEN condition
        ELSE IF ~isTruthy(condition.st, condition.v) THEN R(condition.st, NilLiteral)
        ELSE Bind(execute(condition.st, stmt.body), LAMBDA body :
                 IF body.sig # "ok" THEN body ELSE whileLoop(body.st, stmt)))

execute(st, stmt) ==
    CASE stmt.k = "Expression" -> evaluate(st, stmt.expression)
      [] stmt.k = "Print" ->
            Bind(evaluate(st, stmt.expression), LAMBDA value :
                IF value.sig # "ok" THEN value
                ELSE R([value.st EXCEPT
                           !.output = Append(@, toString(value.st, value.v))],
                       NilLiteral))
      [] stmt.k = "Var" ->
            Bind(        IF stmt.initializer.k # "null"
                         THEN evaluate(st, stmt.initializer)
                         ELSE R(st, NilLiteral), LAMBDA value :
                IF value.sig # "ok" THEN value
                ELSE R(Environment_define(value.st, value.st.environment,
                                          stmt.name.lexeme, value.v), NilLiteral))
      [] stmt.k = "Block" ->
            executeBlock(NewEnvironment(st, st.environment), stmt.statements,
                         Len(st.envs) + 1)
      [] stmt.k = "If" ->
            Bind(evaluate(st, stmt.condition), LAMBDA condition :
                IF condition.sig # "ok" THEN condition
                ELSE IF isTruthy(condition.st, condition.v)
                THEN execute(condition.st, stmt.thenBranch)
                ELSE IF stmt.elseBranch.k # "null"
                THEN execute(condition.st, stmt.elseBranch)
                ELSE R(condition.st, NilLiteral))
      [] stmt.k = "While" -> whileLoop(st, stmt)
      [] stmt.k = "Function" ->
            Bind(       CallableLiteral(LangFunction(st, stmt, st.environment, FALSE),
                                        "Function", Len(st.functions) + 1), LAMBDA func :
                R(Environment_define(func.st, func.st.environment, stmt.name.lexeme,
                                     func.v), NilLiteral))
      [] stmt.k = "Return" ->
            Bind(        IF stmt.value.k # "null" THEN evaluate(st, stmt.value)
                         ELSE R(st, NilLiteral), LAMBDA value :
                IF value.sig # "ok" THEN value ELSE ReturnValue(value.st, value.v))
      [] stmt.k = "Class" -> visitClassStmt(st, stmt)

(***************************************************************************)
(* Programs.  The source texts run is started on.                          *)
(***************************************************************************)

\*   print 1; @
LexErrorThenPrint ==
    <<"p","r","i","n","t"," ","1",";"," ","@">>

\*   print 1; print 1/0; print 2;
RuntimeErrorMidway ==
    <<"p","r","i","n","t"," ","1",";"," ","p","r","i","n","t"," ","1","/","0",";"," ","p","r",
      "i","n","t"," ","2",";">>

\*   fun f() { print "in"; return nil(); } print "a"; f(); print "b";
RuntimeErrorInCall ==
    <<"f","u","n"," ","f","(",")"," ","{"," ","p","r","i","n","t"," ","\"","i","n","\"",";"," ",
      "r","e","t","u","r","n"," ","n","i","l","(",")",";"," ","}"," ","p","r","i","n","t"," ",
      "\"","a","\"",";"," ","f","(",")",";"," ","p","r","i","n","t"," ","\"","b","\"",";">>

\*   { let x = 1; x = 2; print x; }
AssignLocalDepth0 ==
    <<"{"," ","l","e","t"," ","x"," ","="," ","1",";"," ","x"," ","="," ","2",";"," ","p","r",
      "i","n","t"," ","x",";"," ","}">>

\*   let x = 1; { let x = 2; x = 3; print x; } print x;
AssignShadowsGlobal ==
    <<"l","e","t"," ","x"," ","="," ","1",";"," ","{"," ","l","e","t"," ","x"," ","="," ","2",
      ";"," ","x"," ","="," ","3",";"," ","p","r","i","n","t"," ","x",";"," ","}"," ","p","r",
      "i","n","t"," ","x",";">>

\*   { let x = 1; { let x = 2; print x; } }
ShadowInner ==
    <<"{"," ","l","e","t"," ","x"," ","="," ","1",";"," ","{"," ","l","e","t"," ","x"," ","=",
      " ","2",";"," ","p","r","i","n","t"," ","x",";"," ","}"," ","}">>

\*   { let x = 1; print [x]; }
ArrayLocal ==
    <<"{"," ","l","e","t"," ","x"," ","="," ","1",";"," ","p","r","i","n","t"," ","[","x","]",
      ";"," ","}">>

\*   class P {} let p = P(); let a = [1]; fun f() {} print p == p; print p == P(); print a == a; print a == [1]; print f == f; print P == P; print f == P;
IdentityRefs ==
    <<"c","l","a","s","s"," ","P"," ","{","}"," ","l","e","t"," ","p"," ","="," ","P","(",")",
      ";"," ","l","e","t"," ","a"," ","="," ","[","1","]",";"," ","f","u","n"," ","f","(",")",
      " ","{","}"," ","p","r","i","n","t"," ","p"," ","=","="," ","p",";"," ","p","r","i","n",
      "t"," ","p"," ","=","="," ","P","(",")",";"," ","p","r","i","n","t"," ","a"," ","=","=",
      " ","a",";"," ","p","r","i","n","t"," ","a"," ","=","="," ","[","1","]",";"," ","p","r",
      "i","n","t"," ","f"," ","=","="," ","f",";"," ","p","r","i","n","t"," ","P"," ","=","=",
      " ","P",";"," ","p","r","i","n","t"," ","f"," ","=","="," ","P",";">>

\*   class P { same(o) { return this == o; } } let p = P(); print p.same(p);
ThisEqualsReceiver ==
    <<"c","l","a","s","s"," ","P"," ","{"," ","s","a","m","e","(","o",")"," ","{"," ","r","e",
      "t","u","r","n"," ","t","h","i","s"," ","=","="," ","o",";"," ","}"," ","}"," ","l","e",
      "t"," ","p"," ","="," ","P","(",")",";"," ","p","r","i","n","t"," ","p",".","s","a","m",
      "e","(","p",")",";">>

\*   class A { m() { return "A"; } who() { return this.n; } } class B inherits A { m() { return "B"; } who() { return "B"; } t() { return super.m(); } u() { return super.who(); } } class C inherits B { m() { return "C"; } } let c = C(); c.n = 5; print c.t(); print c.u();
SuperChain ==
    <<"c","l","a","s","s"," ","A"," ","{"," ","m","(",")"," ","{"," ","r","e","t","u","r","n",
      " ","\"","A","\"",";"," ","}"," ","w","h","o","(",")"," ","{"," ","r","e","t","u","r","n",
      " ","t","h","i","s",".","n",";"," ","}"," ","}"," ","c","l","a","s","s"," ","B"," ","i",
      "n","h","e","r","i","t","s"," ","A"," ","{"," ","m","(",")"," ","{"," ","r","e","t","u",
      "r","n"," ","\"","B","\"",";"," ","}"," ","w","h","o","(",")"," ","{"," ","r","e","t","u",
      "r","n"," ","\"","B","\"",";"," ","}"," ","t","(",")"," ","{"," ","r","e","t","u","r","n",
      " ","s","u","p","e","r",".","m","(",")",";"," ","}"," ","u","(",")"," ","{"," ","r","e",
      "t","u","r","n"," ","s","u","p","e","r",".","w","h","o","(",")",";"," ","}"," ","}"," ",
      "c","l","a","s","s"," ","C"," ","i","n","h","e","r","i","t","s"," ","B"," ","{"," ","m",
      "(",")"," ","{"," ","r","e","t","u","r","n"," ","\"","C","\"",";"," ","}"," ","}"," ","l",
      "e","t"," ","c"," ","="," ","C","(",")",";"," ","c",".","n"," ","="," ","5",";"," ","p",
      "r","i","n","t"," ","c",".","t","(",")",";"," ","p","r","i","n","t"," ","c",".","u","(",
      ")",";">>

\*   class A {} class B inherits A { t() { return super.m(); } } print 1; B().t(); print 2;
SuperMissing ==
    <<"c","l","a","s","s"," ","A"," ","{","}"," ","c","l","a","s","s"," ","B"," ","i","n","h",
      "e","r","i","t","s"," ","A"," ","{"," ","t","(",")"," ","{"," ","r","e","t","u","r","n",
      " ","s","u","p","e","r",".","m","(",")",";"," ","}"," ","}"," ","p","r","i","n","t"," ",
      "1",";"," ","B","(",")",".","t","(",")",";"," ","p","r","i","n","t"," ","2",";">>

\*   class P { init(a) { print a; this.x = a; } } let p = P(7); print p.x; class Q inherits P {} print Q(8).x; class E {} print E(); print P(1, 2);
ClassInit ==
    <<"c","l","a","s","s"," ","P"," ","{"," ","i","n","i","t","(","a",")"," ","{"," ","p","r",
      "i","n","t"," ","a",";"," ","t","h","i","s",".","x"," ","="," ","a",";"," ","}"," ","}",
      " ","l","e","t"," ","p"," ","="," ","P","(","7",")",";"," ","p","r","i","n","t"," ","p",
      ".","x",";"," ","c","l","a","s","s"," ","Q"," ","i","n","h","e","r","i","t","s"," ","P",
      " ","{","}"," ","p","r","i","n","t"," ","Q","(","8",")",".","x",";"," ","c","l","a","s",
      "s"," ","E"," ","{","}"," ","p","r","i","n","t"," ","E","(",")",";"," ","p","r","i","n",
      "t"," ","P","(","1",","," ","2",")",";">>

\*   class A { m() { return 1; } } class B inherits A {} let b = B(); let c = B(); b.f = 2; print b.f; print b.m(); b.m = 3; print b.m; print c.m(); print c.nope;
Properties ==
    <<"c","l","a","s","s"," ","A"," ","{"," ","m","(",")"," ","{"," ","r","e","t","u","r","n",
      " ","1",";"," ","}"," ","}"," ","c","l","a","s","s"," ","B"," ","i","n","h","e","r","i",
      "t","s"," ","A"," ","{","}"," ","l","e","t"," ","b"," ","="," ","B","(",")",";"," ","l",
      "e","t"," ","c"," ","="," ","B","(",")",";"," ","b",".","f"," ","="," ","2",";"," ","p",
      "r","i","n","t"," ","b",".","f",";"," ","p","r","i","n","t"," ","b",".","m","(",")",";",
      " ","b",".","m"," ","="," ","3",";"," ","p","r","i","n","t"," ","b",".","m",";"," ","p",
      "r","i","n","t"," ","c",".","m","(",")",";"," ","p","r","i","n","t"," ","c",".","n","o",
      "p","e",";">>

\*   fun mk() { let n = 0; fun inc() { n = n + 1; return n; } return inc; } let f = mk(); let g = mk();
CounterPrefix ==
    <<"f","u","n"," ","m","k","(",")"," ","{"," ","l","e","t"," ","n"," ","="," ","0",";"," ",
      "f","u","n"," ","i","n","c","(",")"," ","{"," ","n"," ","="," ","n"," ","+"," ","1",";",
      " ","r","e","t","u","r","n"," ","n",";"," ","}"," ","r","e","t","u","r","n"," ","i","n",
      "c",";"," ","}"," ","l","e","t"," ","f"," ","="," ","m","k","(",")",";"," ","l","e","t",
      " ","g"," ","="," ","m","k","(",")",";">>

\*    print f();
PrintF ==
    <<" ","p","r","i","n","t"," ","f","(",")",";">>

\*    print g();
PrintG ==
    <<" ","p","r","i","n","t"," ","g","(",")",";">>

\* The number of successive calls of one closure in a counter program.
MaxCalls == 2

RECURSIVE Repeat(_, _)
Repeat(text, k) == IF k = 0 THEN <<>> ELSE text \o Repeat(text, k - 1)

\* The counter factory of the closure tests, followed by k calls of the
\* closure f, one call of the closure g and one more call of f.
CounterFactory(k) == CounterPrefix \o Repeat(PrintF, k) \o PrintG \o PrintF

\*   class P { init() { this.x = 1; } } class Q { init() { return; } } fun f() {} let p = P(); let r = p.init(); let q = Q(); let s = q.init(); print r; print s; print f(); print r.x;
InitReturns ==
    <<"c","l","a","s","s"," ","P"," ","{"," ","i","n","i","t","(",")"," ","{"," ","t","h","i",
      "s",".","x"," ","="," ","1",";"," ","}"," ","}"," ","c","l","a","s","s"," ","Q"," ","{",
      " ","i","n","i","t","(",")"," ","{"," ","r","e","t","u","r","n",";"," ","}"," ","}"," ",
      "f","u","n"," ","f","(",")"," ","{","}"," ","l","e","t"," ","p"," ","="," ","P","(",")",
      ";"," ","l","e","t"," ","r"," ","="," ","p",".","i","n","i","t","(",")",";"," ","l","e",
      "t"," ","q"," ","="," ","Q","(",")",";"," ","l","e","t"," ","s"," ","="," ","q",".","i",
      "n","i","t","(",")",";"," ","p","r","i","n","t"," ","r",";"," ","p","r","i","n","t"," ",
      "s",";"," ","p","r","i","n","t"," ","f","(",")",";"," ","p","r","i","n","t"," ","r",".",
      "x",";">>

\*   fun t() { print "t"; return 1; } fun f() { print "f"; return nil; } print t() or f(); print f() and t(); print f() or t(); print t() and f();
ShortCircuit ==
    <<"f","u","n"," ","t","(",")"," ","{"," ","p","r","i","n","t"," ","\"","t","\"",";"," ","r",
      "e","t","u","r","n"," ","1",";"," ","}"," ","f","u","n"," ","f","(",")"," ","{"," ","p",
      "r","i","n","t"," ","\"","f","\"",";"," ","r","e","t","u","r","n"," ","n","i","l",";"," ",
      "}"," ","p","r","i","n","t"," ","t","(",")"," ","o","r"," ","f","(",")",";"," ","p","r",
      "i","n","t"," ","f","(",")"," ","a","n","d"," ","t","(",")",";"," ","p","r","i","n","t",
      " ","f","(",")"," ","o","r"," ","t","(",")",";"," ","p","r","i","n","t"," ","t","(",")",
      " ","a","n","d"," ","f","(",")",";">>

\*   fun a() { print "a"; return 1; } fun b() { print "b"; return 2; } fun h(x, y) { return x - y; } fun g() { print "g"; return h; } print a() - b(); print g()(a(), b());
EvalOrder ==
    <<"f","u","n"," ","a","(",")"," ","{"," ","p","r","i","n","t"," ","\"","a","\"",";"," ","r",
      "e","t","u","r","n"," ","1",";"," ","}"," ","f","u","n"," ","b","(",")"," ","{"," ","p",
      "r","i","n","t"," ","\"","b","\"",";"," ","r","e","t","u","r","n"," ","2",";"," ","}"," ",
      "f","u","n"," ","h","(","x",","," ","y",")"," ","{"," ","r","e","t","u","r","n"," ","x",
      " ","-"," ","y",";"," ","}"," ","f","u","n"," ","g","(",")"," ","{"," ","p","r","i","n",
      "t"," ","\"","g","\"",";"," ","r","e","t","u","r","n"," ","h",";"," ","}"," ","p","r","i",
      "n","t"," ","a","(",")"," ","-"," ","b","(",")",";"," ","p","r","i","n","t"," ","g","(",
      ")","(","a","(",")",","," ","b","(",")",")",";">>

\*   fun a() { print "a"; return [0]; } fun i() { print "i"; return 0; } fun v() { print "v"; return 9; } a()[(i())] = v();
IndexedSetOrder ==
    <<"f","u","n"," ","a","(",")"," ","{"," ","p","r","i","n","t"," ","\"","a","\"",";"," ","r",
      "e","t","u","r","n"," ","[","0","]",";"," ","}"," ","f","u","n"," ","i","(",")"," ","{",
      " ","p","r","i","n","t"," ","\"","i","\"",";"," ","r","e","t","u","r","n"," ","0",";"," ",
      "}"," ","f","u","n"," ","v","(",")"," ","{"," ","p","r","i","n","t"," ","\"","v","\"",";",
      " ","r","e","t","u","r","n"," ","9",";"," ","}"," ","a","(",")","[","(","i","(",")",")",
      "]"," ","="," ","v","(",")",";">>

\*   print 17 % 5; print (0 - 1) % 3; print (0 - 7) % 3; print 7 % 3;
Modulo ==
    <<"p","r","i","n","t"," ","1","7"," ","%"," ","5",";"," ","p","r","i","n","t"," ","(","0",
      " ","-"," ","1",")"," ","%"," ","3",";"," ","p","r","i","n","t"," ","(","0"," ","-"," ",
      "7",")"," ","%"," ","3",";"," ","p","r","i","n","t"," ","7"," ","%"," ","3",";">>

\*   let a = [1, 2, 3]; let s = "hi"; print a[1]; print s[1]; a[1] = 9; print a; print a[3];
IndexInRange ==
    <<"l","e","t"," ","a"," ","="," ","[","1",","," ","2",","," ","3","]",";"," ","l","e","t",
      " ","s"," ","="," ","\"","h","i","\"",";"," ","p","r","i","n","t"," ","a","[","1","]",";",
      " ","p","r","i","n","t"," ","s","[","1","]",";"," ","a","[","1","]"," ","="," ","9",";",
      " ","p","r","i","n","t"," ","a",";"," ","p","r","i","n","t"," ","a","[","3","]",";">>

\*   let a = [1]; let i = -1; print a[i];
IndexNegative ==
    <<"l","e","t"," ","a"," ","="," ","[","1","]",";"," ","l","e","t"," ","i"," ","="," ","-",
      "1",";"," ","p","r","i","n","t"," ","a","[","i","]",";">>

\*   let a = [1]; a[0.5] = 2;
IndexFraction ==
    <<"l","e","t"," ","a"," ","="," ","[","1","]",";"," ","a","[","0",".","5","]"," ","="," ",
      "2",";">>

\*   let a = [1]; print a["x"];
IndexNotNumber ==
    <<"l","e","t"," ","a"," ","="," ","[","1","]",";"," ","p","r","i","n","t"," ","a","[","\"",
      "x","\"","]",";">>

\*   print "hi"[2];
IndexStringOut ==
    <<"p","r","i","n","t"," ","\"","h","i","\"","[","2","]",";">>

\*   let s = "hi"; s[0] = "x";
IndexSetString ==
    <<"l","e","t"," ","s"," ","="," ","\"","h","i","\"",";"," ","s","[","0","]"," ","="," ",
      "\"","x","\"",";">>

\*   print nil[0];
IndexOtherBase ==
    <<"p","r","i","n","t"," ","n","i","l","[","0","]",";">>

\*   let a = [1]; a[1] = 2;
IndexSetOut ==
    <<"l","e","t"," ","a"," ","="," ","[","1","]",";"," ","a","[","1","]"," ","="," ","2",";">>

\*   fun set(x) { x[0] = 7; } class B {} let a = [1, 2]; let b = a; b[1] = 5; print a; set(a); print b; let o = B(); o.f = a; o.f[0] = 8; print a; let c = a + b; c[0] = 0; print c; print a; print b;
ArraySharing ==
    <<"f","u","n"," ","s","e","t","(","x",")"," ","{"," ","x","[","0","]"," ","="," ","7",";",
      " ","}"," ","c","l","a","s","s"," ","B"," ","{","}"," ","l","e","t"," ","a"," ","="," ",
      "[","1",","," ","2","]",";"," ","l","e","t"," ","b"," ","="," ","a",";"," ","b","[","1",
      "]"," ","="," ","5",";"," ","p","r","i","n","t"," ","a",";"," ","s","e","t","(","a",")",
      ";"," ","p","r","i","n","t"," ","b",";"," ","l","e","t"," ","o"," ","="," ","B","(",")",
      ";"," ","o",".","f"," ","="," ","a",";"," ","o",".","f","[","0","]"," ","="," ","8",";",
      " ","p","r","i","n","t"," ","a",";"," ","l","e","t"," ","c"," ","="," ","a"," ","+"," ",
      "b",";"," ","c","[","0","]"," ","="," ","0",";"," ","p","r","i","n","t"," ","c",";"," ",
      "p","r","i","n","t"," ","a",";"," ","p","r","i","n","t"," ","b",";">>

\*   fun f(a, b) { print "body"; return a - b; } print f(5, 3); print f(1);
CallArity ==
    <<"f","u","n"," ","f","(","a",","," ","b",")"," ","{"," ","p","r","i","n","t"," ","\"","b",
      "o","d","y","\"",";"," ","r","e","t","u","r","n"," ","a"," ","-"," ","b",";"," ","}"," ",
      "p","r","i","n","t"," ","f","(","5",","," ","3",")",";"," ","p","r","i","n","t"," ","f",
      "(","1",")",";">>

\*   let s = "a
\*   b";
\*   print s;
MultiLine ==
    <<"l","e","t"," ","s"," ","="," ","\"","a","\n","b","\"",";","\n","p","r","i","n","t"," ",
      "s",";">>

\*   @ print 1; # "x
LexErrors ==
    <<"@"," ","p","r","i","n","t"," ","1",";"," ","#"," ","\"","x">>

\*   let a = [1, 2]; let i = 0; print a[i + 1];
IndexExpression ==
    <<"l","e","t"," ","a"," ","="," ","[","1",","," ","2","]",";"," ","l","e","t"," ","i"," ",
      "="," ","0",";"," ","p","r","i","n","t"," ","a","[","i"," ","+"," ","1","]",";">>

\*   fun s() { print "s"; return 0; } fun c(i) { print "c"; return i < 2; } fun n(i) { print "n"; return i + 1; } for (let i = s(); c(i); i = n(i)) print "b";
ForOrder ==
    <<"f","u","n"," ","s","(",")"," ","{"," ","p","r","i","n","t"," ","\"","s","\"",";"," ","r",
      "e","t","u","r","n"," ","0",";"," ","}"," ","f","u","n"," ","c","(","i",")"," ","{"," ",
      "p","r","i","n","t"," ","\"","c","\"",";"," ","r","e","t","u","r","n"," ","i"," ","<"," ",
      "2",";"," ","}"," ","f","u","n"," ","n","(","i",")"," ","{"," ","p","r","i","n","t"," ",
      "\"","n","\"",";"," ","r","e","t","u","r","n"," ","i"," ","+"," ","1",";"," ","}"," ","f",
      "o","r"," ","(","l","e","t"," ","i"," ","="," ","s","(",")",";"," ","c","(","i",")",";",
      " ","i"," ","="," ","n","(","i",")",")"," ","p","r","i","n","t"," ","\"","b","\"",";">>

\*   fun f() { for (let i = 0;; i = i + 1) { if (i == 2) return i; print i; } } print f();
ForNoCond ==
    <<"f","u","n"," ","f","(",")"," ","{"," ","f","o","r"," ","(","l","e","t"," ","i"," ","=",
      " ","0",";",";"," ","i"," ","="," ","i"," ","+"," ","1",")"," ","{"," ","i","f"," ","(",
      "i"," ","=","="," ","2",")"," ","r","e","t","u","r","n"," ","i",";"," ","p","r","i","n",
      "t"," ","i",";"," ","}"," ","}"," ","p","r","i","n","t"," ","f","(",")",";">>

\*   let i = 0; for (; i < 2;) i = i + 1; print i;
ForBare ==
    <<"l","e","t"," ","i"," ","="," ","0",";"," ","f","o","r"," ","(",";"," ","i"," ","<"," ",
      "2",";",")"," ","i"," ","="," ","i"," ","+"," ","1",";"," ","p","r","i","n","t"," ","i",
      ";">>

\*   class C {} let a = 1; let b = 0; let o = C(); let r = [1, 2]; a = b = 3; o.x = 2; r[0] = 5; a += 2; o.x -= 1; r[1] *= 4; a /= 5; a++; o.x--; r[0]++; print a; print b; print o.x; print r;
AssignForms ==
    <<"c","l","a","s","s"," ","C"," ","{","}"," ","l","e","t"," ","a"," ","="," ","1",";"," ",
      "l","e","t"," ","b"," ","="," ","0",";"," ","l","e","t"," ","o"," ","="," ","C","(",")",
      ";"," ","l","e","t"," ","r"," ","="," ","[","1",","," ","2","]",";"," ","a"," ","="," ",
      "b"," ","="," ","3",";"," ","o",".","x"," ","="," ","2",";"," ","r","[","0","]"," ","=",
      " ","5",";"," ","a"," ","+","="," ","2",";"," ","o",".","x"," ","-","="," ","1",";"," ",
      "r","[","1","]"," ","*","="," ","4",";"," ","a"," ","/","="," ","5",";"," ","a","+","+",
      ";"," ","o",".","x","-","-",";"," ","r","[","0","]","+","+",";"," ","p","r","i","n","t",
      " ","a",";"," ","p","r","i","n","t"," ","b",";"," ","p","r","i","n","t"," ","o",".","x",
      ";"," ","p","r","i","n","t"," ","r",";">>

\*   let a = 1; (a) = 2;
InvalidTargetAssign ==
    <<"l","e","t"," ","a"," ","="," ","1",";"," ","(","a",")"," ","="," ","2",";">>

\*   let a = 1; a + a += 1;
InvalidTargetCompound ==
    <<"l","e","t"," ","a"," ","="," ","1",";"," ","a"," ","+"," ","a"," ","+","="," ","1",";">>

\*   let a = 1; 1++;
InvalidTargetPostfix ==
    <<"l","e","t"," ","a"," ","="," ","1",";"," ","1","+","+",";">>

\*   return 1;
ReturnTopLevel ==
    <<"r","e","t","u","r","n"," ","1",";">>

\*   fun f() { return 1; } { return; }
ReturnAfterFunction ==
    <<"f","u","n"," ","f","(",")"," ","{"," ","r","e","t","u","r","n"," ","1",";"," ","}"," ",
      "{"," ","r","e","t","u","r","n",";"," ","}">>

\*   class A { init() { fun g() { return 7; } return g(); } }
ReturnValueInit ==
    <<"c","l","a","s","s"," ","A"," ","{"," ","i","n","i","t","(",")"," ","{"," ","f","u","n",
      " ","g","(",")"," ","{"," ","r","e","t","u","r","n"," ","7",";"," ","}"," ","r","e","t",
      "u","r","n"," ","g","(",")",";"," ","}"," ","}">>

\*   class A { init() { fun g() { return 7; } this.x = g(); return; } m() { return 2; } } print A().x;
ReturnNestedInInit ==
    <<"c","l","a","s","s"," ","A"," ","{"," ","i","n","i","t","(",")"," ","{"," ","f","u","n",
      " ","g","(",")"," ","{"," ","r","e","t","u","r","n"," ","7",";"," ","}"," ","t","h","i",
      "s",".","x"," ","="," ","g","(",")",";"," ","r","e","t","u","r","n",";"," ","}"," ","m",
      "(",")"," ","{"," ","r","e","t","u","r","n"," ","2",";"," ","}"," ","}"," ","p","r","i",
      "n","t"," ","A","(",")",".","x",";">>

\*   class A { m() { return this; } } print this;
ThisTopLevel ==
    <<"c","l","a","s","s"," ","A"," ","{"," ","m","(",")"," ","{"," ","r","e","t","u","r","n",
      " ","t","h","i","s",";"," ","}"," ","}"," ","p","r","i","n","t"," ","t","h","i","s",";">>

\*   class A { m() { return 1; } } super.m();
SuperTopLevel ==
    <<"c","l","a","s","s"," ","A"," ","{"," ","m","(",")"," ","{"," ","r","e","t","u","r","n",
      " ","1",";"," ","}"," ","}"," ","s","u","p","e","r",".","m","(",")",";">>

\*   class A { m() { return super.m(); } }
SuperNoSuperclass ==
    <<"c","l","a","s","s"," ","A"," ","{"," ","m","(",")"," ","{"," ","r","e","t","u","r","n",
      " ","s","u","p","e","r",".","m","(",")",";"," ","}"," ","}">>

\*   { let a = 1; let a = 2; }
RedeclareVar ==
    <<"{"," ","l","e","t"," ","a"," ","="," ","1",";"," ","l","e","t"," ","a"," ","="," ","2",
      ";"," ","}">>

\*   fun f(a) { let a = 1; }
RedeclareParam ==
    <<"f","u","n"," ","f","(","a",")"," ","{"," ","l","e","t"," ","a"," ","="," ","1",";"," ",
      "}">>

\*   { fun f() {} fun f() {} }
RedeclareFunction ==
    <<"{"," ","f","u","n"," ","f","(",")"," ","{","}"," ","f","u","n"," ","f","(",")"," ","{",
      "}"," ","}">>

\*   { class A {} class A {} }
RedeclareClass ==
    <<"{"," ","c","l","a","s","s"," ","A"," ","{","}"," ","c","l","a","s","s"," ","A"," ","{",
      "}"," ","}">>

\*   { let a = 1; { let a = a; } }
OwnInitializer ==
    <<"{"," ","l","e","t"," ","a"," ","="," ","1",";"," ","{"," ","l","e","t"," ","a"," ","=",
      " ","a",";"," ","}"," ","}">>

\*   let a = 1; let a = a + 1; { let b = a + 1; { let b = 5; } fun f() { return f; } class A { m() { return A; } } print b; } print a;
ScopesAccepted ==
    <<"l","e","t"," ","a"," ","="," ","1",";"," ","l","e","t"," ","a"," ","="," ","a"," ","+",
      " ","1",";"," ","{"," ","l","e","t"," ","b"," ","="," ","a"," ","+"," ","1",";"," ","{",
      " ","l","e","t"," ","b"," ","="," ","5",";"," ","}"," ","f","u","n"," ","f","(",")"," ",
      "{"," ","r","e","t","u","r","n"," ","f",";"," ","}"," ","c","l","a","s","s"," ","A"," ",
      "{"," ","m","(",")"," ","{"," ","r","e","t","u","r","n"," ","A",";"," ","}"," ","}"," ",
      "p","r","i","n","t"," ","b",";"," ","}"," ","p","r","i","n","t"," ","a",";">>

\*   let x = 1; fun g(a) { { let b = 3; { print a + b; nil(); } } } { let c = 2; g(c); } print x;
ErrorUnwinds ==
    <<"l","e","t"," ","x"," ","="," ","1",";"," ","f","u","n"," ","g","(","a",")"," ","{"," ",
      "{"," ","l","e","t"," ","b"," ","="," ","3",";"," ","{"," ","p","r","i","n","t"," ","a",
      " ","+"," ","b",";"," ","n","i","l","(",")",";"," ","}"," ","}"," ","}"," ","{"," ","l",
      "e","t"," ","c"," ","="," ","2",";"," ","g","(","c",")",";"," ","}"," ","p","r","i","n",
      "t"," ","x",";">>

\*   class Outer { make() { class Inner { me() { return this; } } return Inner().me(); } } let o = Outer().make(); print 1;
NestedClassScopes ==
    <<"c","l","a","s","s"," ","O","u","t","e","r"," ","{"," ","m","a","k","e","(",")"," ","{",
      " ","c","l","a","s","s"," ","I","n","n","e","r"," ","{"," ","m","e","(",")"," ","{"," ",
      "r","e","t","u","r","n"," ","t","h","i","s",";"," ","}"," ","}"," ","r","e","t","u","r",
      "n"," ","I","n","n","e","r","(",")",".","m","e","(",")",";"," ","}"," ","}"," ","l","e",
      "t"," ","o"," ","="," ","O","u","t","e","r","(",")",".","m","a","k","e","(",")",";"," ",
      "p","r","i","n","t"," ","1",";">>

\*   let a = "global"; { fun show() { print a; } show(); let a = "block"; show(); print a; }
StaticRead ==
    <<"l","e","t"," ","a"," ","="," ","\"","g","l","o","b","a","l","\"",";"," ","{"," ","f","u",
      "n"," ","s","h","o","w","(",")"," ","{"," ","p","r","i","n","t"," ","a",";"," ","}"," ",
      "s","h","o","w","(",")",";"," ","l","e","t"," ","a"," ","="," ","\"","b","l","o","c","k",
      "\"",";"," ","s","h","o","w","(",")",";"," ","p","r","i","n","t"," ","a",";"," ","}">>

\*   let n = 0; { fun bump() { n = n + 1; } bump(); let n = 10; bump(); print n; } print n;
StaticWrite ==
    <<"l","e","t"," ","n"," ","="," ","0",";"," ","{"," ","f","u","n"," ","b","u","m","p","(",
      ")"," ","{"," ","n"," ","="," ","n"," ","+"," ","1",";"," ","}"," ","b","u","m","p","(",
      ")",";"," ","l","e","t"," ","n"," ","="," ","1","0",";"," ","b","u","m","p","(",")",";",
      " ","p","r","i","n","t"," ","n",";"," ","}"," ","p","r","i","n","t"," ","n",";">>

\*   { let a = 1; { let a = 2; fun show() { print a; } show(); } }
FunctionInShadow ==
    <<"{"," ","l","e","t"," ","a"," ","="," ","1",";"," ","{"," ","l","e","t"," ","a"," ","=",
      " ","2",";"," ","f","u","n"," ","s","h","o","w","(",")"," ","{"," ","p","r","i","n","t",
      " ","a",";"," ","}"," ","s","h","o","w","(",")",";"," ","}"," ","}">>

\*   { let a = 1; { fun show() { print a; } show(); let a = 2; show(); } }
StaticLocal ==
    <<"{"," ","l","e","t"," ","a"," ","="," ","1",";"," ","{"," ","f","u","n"," ","s","h","o",
      "w","(",")"," ","{"," ","p","r","i","n","t"," ","a",";"," ","}"," ","s","h","o","w","(",
      ")",";"," ","l","e","t"," ","a"," ","="," ","2",";"," ","s","h","o","w","(",")",";"," ",
      "}"," ","}">>

\*   class A { m() { return 1; } } class B inherits A { t() { class C { n() { return this; } } return super.m() + 1; } } print B().t();
NestedClassRestore ==
    <<"c","l","a","s","s"," ","A"," ","{"," ","m","(",")"," ","{"," ","r","e","t","u","r","n",
      " ","1",";"," ","}"," ","}"," ","c","l","a","s","s"," ","B"," ","i","n","h","e","r","i",
      "t","s"," ","A"," ","{"," ","t","(",")"," ","{"," ","c","l","a","s","s"," ","C"," ","{",
      " ","n","(",")"," ","{"," ","r","e","t","u","r","n"," ","t","h","i","s",";"," ","}"," ",
      "}"," ","r","e","t","u","r","n"," ","s","u","p","e","r",".","m","(",")"," ","+"," ","1",
      ";"," ","}"," ","}"," ","p","r","i","n","t"," ","B","(",")",".","t","(",")",";">>

\*   fun f() { let z = 5; while (true) { if (z == 5) return z + 1; } } { let x = 1; let y = f(); print x + y; }
ReturnUnwinds ==
    <<"f","u","n"," ","f","(",")"," ","{"," ","l","e","t"," ","z"," ","="," ","5",";"," ","w",
      "h","i","l","e"," ","(","t","r","u","e",")"," ","{"," ","i","f"," ","(","z"," ","=","=",
      " ","5",")"," ","r","e","t","u","r","n"," ","z"," ","+"," ","1",";"," ","}"," ","}"," ",
      "{"," ","l","e","t"," ","x"," ","="," ","1",";"," ","l","e","t"," ","y"," ","="," ","f",
      "(",")",";"," ","p","r","i","n","t"," ","x"," ","+"," ","y",";"," ","}">>

\*   class A { init(n) { this.n = n; } get() { return this.n; } } class B inherits A { up() { fun inner() { return super.get() + 1; } return inner(); } } print B(1).up();
ScopeAgreement ==
    <<"c","l","a","s","s"," ","A"," ","{"," ","i","n","i","t","(","n",")"," ","{"," ","t","h",
      "i","s",".","n"," ","="," ","n",";"," ","}"," ","g","e","t","(",")"," ","{"," ","r","e",
      "t","u","r","n"," ","t","h","i","s",".","n",";"," ","}"," ","}"," ","c","l","a","s","s",
      " ","B"," ","i","n","h","e","r","i","t","s"," ","A"," ","{"," ","u","p","(",")"," ","{",
      " ","f","u","n"," ","i","n","n","e","r","(",")"," ","{"," ","r","e","t","u","r","n"," ",
      "s","u","p","e","r",".","g","e","t","(",")"," ","+"," ","1",";"," ","}"," ","r","e","t",
      "u","r","n"," ","i","n","n","e","r","(",")",";"," ","}"," ","}"," ","p","r","i","n","t",
      " ","B","(","1",")",".","u","p","(",")",";">>

\*   class A { m() { return 1; } } class B inherits A { m() { class C { n() { super.m(); } } } }
NestedNoSuper ==
    <<"c","l","a","s","s"," ","A"," ","{"," ","m","(",")"," ","{"," ","r","e","t","u","r","n",
      " ","1",";"," ","}"," ","}"," ","c","l","a","s","s"," ","B"," ","i","n","h","e","r","i",
      "t","s"," ","A"," ","{"," ","m","(",")"," ","{"," ","c","l","a","s","s"," ","C"," ","{",
      " ","n","(",")"," ","{"," ","s","u","p","e","r",".","m","(",")",";"," ","}"," ","}"," ",
      "}"," ","}">>

\*   { let k = 10; fun add(p) { k = k + p; } add(2); print k; }
BlockScopes ==
    <<"{"," ","l","e","t"," ","k"," ","="," ","1","0",";"," ","f","u","n"," ","a","d","d","(",
      "p",")"," ","{"," ","k"," ","="," ","k"," ","+"," ","p",";"," ","}"," ","a","d","d","(",
      "2",")",";"," ","p","r","i","n","t"," ","k",";"," ","}">>

\* The characters of the sources the lexer is run on exhaustively: a quote, a
\* backslash, a newline, a character no token starts with, a letter, a digit,
\* a dot and a slash.
LexAlphabet == {"\"", "\\", "\n", "@", "a", "1", ".", "/"}

\* The longest source made of the characters of LexAlphabet.
MaxLexLen == 3

\* Every source of 1..MaxLexLen characters of LexAlphabet.
LexSources == UNION {[1..n -> LexAlphabet] : n \in 1..MaxLexLen}

Sources ==
    {LexErrorThenPrint,
     RuntimeErrorMidway,
     RuntimeErrorInCall,
     AssignLocalDepth0,
     AssignShadowsGlobal,
     ShadowInner,
     ArrayLocal,
     IdentityRefs,
     ThisEqualsReceiver,
     SuperChain,
     SuperMissing,
     ClassInit,
     Properties,
     InitReturns,
     ShortCircuit,
     EvalOrder,
     IndexedSetOrder,
     Modulo,
     IndexInRange,
     IndexNegative,
     IndexFraction,
     IndexNotNumber,
     IndexStringOut,
     IndexSetString,
     IndexOtherBase,
     IndexSetOut,
     ArraySharing,
     CallArity,
     MultiLine,
     LexErrors,
     IndexExpression,
     ForOrder,
     ForBare,
     ForNoCond,
     AssignForms,
     InvalidTargetAssign,
     InvalidTargetCompound,
     InvalidTargetPostfix,
     ReturnTopLevel,
     ReturnAfterFunction,
     ReturnValueInit,
     ReturnNestedInInit,
     ThisTopLevel,
     SuperTopLevel,
     SuperNoSuperclass,
     RedeclareVar,
     RedeclareParam,
     RedeclareFunction,
     RedeclareClass,
     OwnInitializer,
     ScopesAccepted,
     ErrorUnwinds,
     NestedClassScopes,
     StaticRead,
     StaticWrite,
     FunctionInShadow,
     StaticLocal,
     NestedClassRestore,
     ReturnUnwinds,
     ScopeAgreement,
     NestedNoSuper,
     BlockScopes}
    \cup {CounterFactory(k) : k \in 1..MaxCalls}
    \cup LexSources

(***************************************************************************)
(* Langskin.run (api/createLangskin.ts) as a state machine.  pc is the     *)
(* position in run: "scan" (Lexer.scanTokens), "parse" (Parser.parse),     *)
(* "resolve" (Resolver.resolveStmts), "interpret" (Interpreter.interpret), *)
(* "done" (run has returned the reporter) or "thrown" (run has rethrown an *)
(* exception that is no LangError).  Each loop of a phase over tokens or   *)
(* statements advances one iteration per step; ip is the index of the      *)
(* statement loop of the current phase.                                    *)
(***************************************************************************)

NewReporter == [errors |-> <<>>, output |-> <<>>]

\* Reporter.report
report(rep, error) == [rep EXCEPT !.errors = Append(@, error)]

\* Reporter.succeeded
succeeded(rep) == Len(rep.errors) = 0

\* Reporter.hasErrors, Reporter.failed
hasErrors(rep) == Len(rep.errors) > 0

failed(rep) == hasErrors(rep)

\* Reporter.write
write(rep, value) == [rep EXCEPT !.output = Append(@, value)]

\* Reporter.clearErrors, Reporter.clearOutput, Reporter.clear
clearErrors(rep) == [rep EXCEPT !.errors = <<>>]

clearOutput(rep) == [rep EXCEPT !.output = <<>>]

clear(rep) == clearOutput(clearErrors(rep))

\* getErrors handing out the Reporter's own array.
getErrorsSameArray(rep) == [of |-> "errors", items |-> rep.errors]

\* Reporter.getErrors, Reporter.getOutput: [...this.errors] and
\* [...this.output] are new arrays.  An array is [of, items]: `of` names the
\* Reporter field the array object is ("errors", "output"), or is "copy" for
\* an array object of its own.
getErrors(rep) == [of |-> "copy", items |-> rep.errors]

getOutput(rep) == [of |-> "copy", items |-> rep.output]

\* The Reporter after array.push(x) on an array a caller holds.
push(rep, array, x) ==
    IF array.of = "errors" THEN [rep EXCEPT !.errors = Append(@, x)]
    ELSE IF array.of = "output" THEN [rep EXCEPT !.output = Append(@, x)]
    ELSE rep

Init ==
    /\ source \in Sources
    /\ pc = "scan"
    /\ lexer = NewLexer
    /\ reporter = NewReporter
    /\ parser = NewParser
    /\ statements = <<>>
    /\ resolver = NewResolver
    /\ interpreter = NewInterpreter
    /\ ip = 0

\* One iteration of the while loop of Lexer.scanTokens.
ScanToken ==
    /\ pc = "scan"
    /\ ~end(source, lexer)
    /\ LET r == scanToken(source, [lexer EXCEPT !.start = lexer.current])
       IN  /\ lexer' = r.lx
           /\ reporter' = [reporter EXCEPT !.errors = @ \o r.errs]
    /\ UNCHANGED <<source, pc, parser, statements, resolver, interpreter, ip>>

\* The end of scanTokens; run goes on to new Parser(tokens) whatever the
\* lexer reported.
ScanEof ==
    /\ pc = "scan"
    /\ end(source, lexer)
    /\ lexer' = [lexer EXCEPT !.tokens = Append(@, eofToken(lexer))]
    /\ pc' = "parse"
    /\ UNCHANGED <<source, reporter, parser, statements, resolver, interpreter, ip>>

\* One iteration of the while loop of Parser.parse; a LangError leaves run
\* through its outer catch.
ParseDeclaration ==
    /\ pc = "parse"
    /\ ~atEnd(lexer.tokens, parser)
    /\ LET d == declaration(lexer.tokens, parser)
       IN  /\ parser' = d.p
           /\ IF d.ok
              THEN /\ statements' = Append(statements, d.v)
                   /\ UNCHANGED <<pc, reporter>>
              ELSE /\ reporter' = report(reporter, d.err)
                   /\ pc' = "done"
                   /\ UNCHANGED statements
    /\ UNCHANGED <<source, lexer, resolver, interpreter, ip>>

\* Parser.parse returns; run makes the Interpreter and the Resolver.
ParseReturn ==
    /\ pc = "parse"
    /\ atEnd(lexer.tokens, parser)
    /\ pc' = "resolve"
    /\ interpreter' = NewInterpreter
    /\ resolver' = NewResolver
    /\ ip' = 0
    /\ UNCHANGED <<source, lexer, reporter, parser, statements>>

\* One iteration of the for loop of Resolver.resolveStmts; the resolver
\* writes Interpreter.locals through Interpreter.resolve.
ResolveStmt ==
    /\ pc = "resolve"
    /\ ip < Len(statements)
    /\ LET r == resolveStmt(resolver, statements[ip + 1])
       IN  /\ resolver' = r.rs
           /\ interpreter' = [interpreter EXCEPT !.locals = r.rs.locals]
           /\ IF r.ok
              THEN /\ ip' = ip + 1
                   /\ UNCHANGED <<pc, reporter>>
              ELSE /\ reporter' = report(reporter, r.err)
                   /\ pc' = "done"
                   /\ UNCHANGED ip
    /\ UNCHANGED <<source, lexer, parser, statements>>

ResolveReturn ==
    /\ pc = "resolve"
    /\ ip = Len(statements)
    /\ pc' = "interpret"
    /\ ip' = 0
    /\ UNCHANGED <<source, lexer, reporter, parser, statements, resolver, interpreter>>

\* interpret with the error reported inside the loop, which goes on.
ExecuteContinuing ==
    /\ pc = "interpret"
    /\ ip < Len(statements)
    /\ LET r == execute(interpreter, statements[ip + 1])
       IN  /\ interpreter' = r.st
           /\ reporter' = IF r.sig = "error" /\ r.err.phase # "Error"
                          THEN report([reporter EXCEPT !.output = r.st.output], r.err)
                          ELSE [reporter EXCEPT !.output = r.st.output]
           /\ ip' = ip + 1
           /\ UNCHANGED pc
    /\ UNCHANGED <<source, lexer, parser, statements, resolver>>

\* One iteration of the for loop of Interpreter.interpret.  A LangError is
\* reported by run's inner catch; any other exception is rethrown.
Execute ==
    /\ pc = "interpret"
    /\ ip < Len(statements)
    /\ LET r == execute(interpreter, statements[ip + 1])
       IN  /\ interpreter' = r.st
           /\ IF r.sig = "ok"
              THEN /\ reporter' = [reporter EXCEPT !.output = r.st.output]
                   /\ ip' = ip + 1
                   /\ UNCHANGED pc
              ELSE IF r.sig = "error" /\ r.err.phase # "Error"
              THEN /\ reporter' = report([reporter EXCEPT !.output = r.st.output], r.err)
                   /\ pc' = "done"
                   /\ UNCHANGED ip
              ELSE /\ reporter' = [reporter EXCEPT !.output = r.st.output]
                   /\ pc' = "thrown"
                   /\ UNCHANGED ip
    /\ UNCHANGED <<source, lexer, parser, statements, resolver>>

\* interpret returns and run returns the reporter.
InterpretReturn ==
    /\ pc = "interpret"
    /\ ip = Len(statements)
    /\ pc' = "done"
    /\ UNCHANGED <<source, lexer, reporter, parser, statements, resolver, interpreter, ip>>

Next ==
    \/ ScanToken
    \/ ScanEof
    \/ ParseDeclaration
    \/ ParseReturn
    \/ ResolveStmt
    \/ ResolveReturn
    \/ Execute
    \/ InterpretReturn

Spec == Init /\ [][Next]_vars

(***************************************************************************)
(* A Reporter driven by a caller (reporter/reporter.ts): any sequence of   *)
(* at most MaxReporterCalls calls of report, write, clearErrors,           *)
(* clearOutput and clear, and of getErrors / getOutput followed by a push  *)
(* on the array returned.  `statements` is the sequence of the calls made, *)
(* pc is "reporter" throughout; the other variables keep their initial     *)
(* values.                                                                 *)
(***************************************************************************)

MaxReporterCalls == 4

ReportedErrors ==
    {lexerError("Unexpected character.", 1, 0),
     [phase |-> "Runtime", message |-> "Division by zero.", line |-> 2,
      column |-> 3, lexeme |-> "/"]}

WrittenValues == {"a", "b"}

ReporterInit ==
    /\ source = <<>>
    /\ pc = "reporter"
    /\ lexer = NewLexer
    /\ reporter = NewReporter
    /\ parser = NewParser
    /\ statements = <<>>
    /\ resolver = NewResolver
    /\ interpreter = NewInterpreter
    /\ ip = 0

\* The caller makes the call `made`, which leaves the Reporter as `rep`.
ReporterCall(made, rep) ==
    /\ pc = "reporter"
    /\ Len(statements) < MaxReporterCalls
    /\ statements' = Append(statements, made)
    /\ reporter' = rep
    /\ UNCHANGED <<source, pc, lexer, parser, resolver, interpreter, ip>>

CallReport ==
    \E error \in ReportedErrors :
        ReporterCall([k |-> "report", arg |-> error], report(reporter, error))

CallWrite ==
    \E value \in WrittenValues :
        ReporterCall([k |-> "write", arg |-> value], write(reporter, value))

CallClearErrors == ReporterCall([k |-> "clearErrors"], clearErrors(reporter))

CallClearOutput == ReporterCall([k |-> "clearOutput"], clearOutput(reporter))

CallClear == ReporterCall([k |-> "clear"], clear(reporter))

\* getErrors().push(error)
CallGetErrors ==
    \E error \in ReportedErrors :
        ReporterCall([k |-> "getErrors"], push(reporter, getErrors(reporter), error))

\* getOutput().push(value)
CallGetOutput ==
    \E value \in WrittenValues :
        ReporterCall([k |-> "getOutput"], push(reporter, getOutput(reporter), value))

ReporterNext ==
    \/ CallReport
    \/ CallWrite
    \/ CallClearErrors
    \/ CallClearOutput
    \/ CallClear
    \/ CallGetErrors
    \/ CallGetOutput

ReporterSpec == ReporterInit /\ [][ReporterNext]_vars

(***************************************************************************)
(* Environment.assign called by a caller (runtime/environment.ts): the     *)
(* environments are a chain of at most MaxChain environments, environment  *)
(* i + 1 enclosed by environment i, each binding some of EnvNames to       *)
(* values of EnvValues.  pc is "environment" throughout; `statements`      *)
(* holds the last call made and whether it raised.                         *)
(***************************************************************************)

MaxChain == 3

EnvNames == {"x", "y"}

EnvValues == {NumberLiteral(IntNum(1)), NumberLiteral(IntNum(2))}

\* The value maps an environment may hold.
EnvBindings == UNION {[names -> EnvValues] : names \in SUBSET EnvNames}

EnvChains ==
    UNION {[1..n -> EnvBindings] : n \in 1..MaxChain}

EnvInit ==
    /\ source = <<>>
    /\ pc = "environment"
    /\ lexer = NewLexer
    /\ reporter = NewReporter
    /\ parser = NewParser
    /\ statements = <<>>
    /\ resolver = NewResolver
    /\ \E chain \in EnvChains :
            interpreter =
                [NewInterpreter EXCEPT
                    !.envs = [i \in 1..Len(chain) |->
                                 [enclosing |-> i - 1, values |-> chain[i]]]]
    /\ ip = 0

\* try { env.assign(name, value) } catch (error) { ... }
CallAssign ==
    /\ pc = "environment"
    /\ \E env \in 1..Len(interpreter.envs), name \in EnvNames, value \in EnvValues :
        LET r == Environment_assign(interpreter, env,
                                    Token("Identifier", name, NoLiteral, 1, 0), value)
        IN  /\ interpreter' = r.st
            /\ statements' = <<[k |-> "assign", env |-> env, name |-> name,
                                value |-> value, raised |-> r.sig = "error",
                                error |-> r.err]>>
    /\ UNCHANGED <<source, pc, lexer, reporter, parser, resolver, ip>>

EnvNext == CallAssign

EnvSpec == EnvInit /\ [][EnvNext]_vars

(***************************************************************************)
(* Properties.  Finished says that run has returned its reporter.          *)
(***************************************************************************)

Finished == pc = "done"

HasErrorInPhase(rep, phase) == \E i \in 1..Len(rep.errors) : rep.errors[i].phase = phase

Messages(rep) == [i \in 1..Len(rep.errors) |-> rep.errors[i].message]

IsPrefix(s, t) == Len(s) <= Len(t) /\ SubSeq(t, 1, Len(s)) = s

\* C1: once the lexer has reported a lexical error, the parser, the resolver
\* and the evaluator do not run: no statement is parsed, the result holds
\* only lexical errors and the output log is empty.
C1_LexicalErrorHaltsPipeline ==
    HasErrorInPhase(reporter, "Lexical") =>
        /\ parser = NewParser
        /\ statements = <<>>
        /\ reporter.output = <<>>
        /\ \A i \in 1..Len(reporter.errors) : reporter.errors[i].phase = "Lexical"

\* The outcomes C2 expects of the programs that fail at run time: what was
\* printed before the failing point, and the one diagnostic.
RuntimeFailures ==
    (RuntimeErrorMidway :> [output |-> <<"1">>, message |-> "Division by zero."])
    @@ (RuntimeErrorInCall :>
            [output |-> <<"a", "in">>, message |-> "Can only call functions and classes."])
    @@ (SuperMissing :> [output |-> <<"1">>, message |-> "Undefined property 'm'."])

\* C2, the step at which evaluation raises a runtime error: run returns at
\* once, one diagnostic of the Runtime phase is added, the failing statement
\* is the last one started and what was printed before stays in the log.
C2_FailingStep ==
    (pc = "interpret" /\ reporter'.errors # reporter.errors) =>
        /\ pc' = "done"
        /\ ip' = ip
        /\ Len(reporter'.errors) = Len(reporter.errors) + 1
        /\ SubSeq(reporter'.errors, 1, Len(reporter.errors)) = reporter.errors
        /\ reporter'.errors[Len(reporter'.errors)].phase = "Runtime"
        /\ IsPrefix(reporter.output, reporter'.output)

\* C2, the result: succeeded() is false, the log holds exactly the strings
\* printed before the error, and exactly one diagnostic is recorded.
C2_FailedResult ==
    (Finished /\ source \in DOMAIN RuntimeFailures) =>
        /\ ~succeeded(reporter)
        /\ reporter.output = RuntimeFailures[source].output
        /\ Messages(reporter) = <<RuntimeFailures[source].message>>
        /\ ip < Len(statements)

\* C2: when evaluation raises a runtime error, execution stops at that point:
\* run returns with succeeded() = false and exactly one diagnostic for the
\* error, the output log holds exactly the strings printed before the error,
\* and no statement after the failing one is executed (after run has returned
\* nothing changes).
C2_RuntimeErrorStopsExecution ==
    /\ []C2_FailedResult
    /\ [][C2_FailingStep]_vars
    /\ [][Finished => UNCHANGED vars]_vars

C2_Witness ==
    /\ Finished
    /\ source = RuntimeErrorInCall
    /\ reporter.output = <<"a", "in">>
    /\ Len(reporter.errors) = 1
    /\ ip = 2

\* C3: an assignment to a variable resolved at depth d, d = 0 included, stores
\* the value in the binding at distance d, so a later read returns it and a
\* global of the same name keeps its value: the block { let x = 1; x = 2;
\* print x; } prints 2, and with a global x = 1 the block { let x = 2; x = 3;
\* print x; } prints 3 and a later print of the global prints 1.
C3_AssignmentMirrorsLookup ==
    Finished =>
        /\ source = AssignLocalDepth0 =>
                reporter = [errors |-> <<>>, output |-> <<"2">>]
        /\ source = AssignShadowsGlobal =>
                reporter = [errors |-> <<>>, output |-> <<"3", "1">>]

\* C4: a name resolves to the innermost enclosing scope that declares it: with
\* x declared in two nested blocks, a read in the inner block yields the inner
\* binding's value.
C4_InnermostScopeWins ==
    (Finished /\ source = ShadowInner) =>
        reporter = [errors |-> <<>>, output |-> <<"2">>]

\* C5: a variable reference is resolved whatever expression contains it, so a
\* local variable used as an element of an array literal evaluates to its
\* local value.
C5_ArrayElementsResolved ==
    (Finished /\ source = ArrayLocal) =>
        reporter = [errors |-> <<>>, output |-> <<"[1]">>]

\* The strings "1", ..., "k".
Counting(k) == [i \in 1..k |-> NatToString(i)]

\* The closures f and g of a counter program, and the binding of n each one
\* captured.
ClosureOf(name) == interpreter.functions[interpreter.envs[globals].values[name].ref].closure

CounterOf(name) == interpreter.envs[ClosureOf(name)].values["n"].v

\* C6: closures capture their environment by reference: each call of the
\* counter factory makes a fresh binding of its counter, the successive calls
\* of one closure yield 1, 2, 3, ... and the closures of two factory calls
\* count independently: after k calls of f, one of g and one more of f the
\* log is 1..k, 1, k + 1, f's counter is k + 1 and g's is 1, in two different
\* environments.
C6_ClosuresCaptureByReference ==
    \A k \in 1..MaxCalls :
        (Finished /\ source = CounterFactory(k)) =>
            /\ reporter = [errors |-> <<>>,
                           output |-> Counting(k) \o <<"1", NatToString(k + 1)>>]
            /\ ClosureOf("f") # ClosureOf("g")
            /\ CounterOf("f") = IntNum(k + 1)
            /\ CounterOf("g") = IntNum(1)

C6_Witness ==
    /\ Finished
    /\ source = CounterFactory(MaxCalls)
    /\ reporter.output = Counting(MaxCalls) \o <<"1", NatToString(MaxCalls + 1)>>
    /\ CounterOf("f") = IntNum(MaxCalls + 1)

\* C7: on arrays, callables and instances == is reference identity, however
\* the operands were obtained: a value equals itself and no other object of
\* the kind, and `this` inside a method called on the instance p is equal
\* to p.
C7_ReferenceIdentity ==
    Finished =>
        /\ source = IdentityRefs =>
                reporter = [errors |-> <<>>,
                            output |-> <<"true", "false", "true", "false", "true",
                                         "true", "false">>]
        /\ source = ThisEqualsReceiver =>
                reporter = [errors |-> <<>>, output |-> <<"true">>]

\* C8: super.m in a method declared in class B looks m up from B's declared
\* superclass A, whatever the class of the receiver, and binds it to the
\* current this: on an instance of C (A <- B <- C, each defining m) B's
\* super.m() runs A's m, and A's who(), reached through super, reads the
\* receiver's field; a method missing in every ancestor raises
\* "Undefined property 'm'.".
C8_SuperStartsAtDeclaredSuperclass ==
    Finished =>
        /\ source = SuperChain =>
                reporter = [errors |-> <<>>, output |-> <<"A", "5">>]
        /\ source = SuperMissing =>
                /\ Messages(reporter) = <<"Undefined property 'm'.">>
                /\ reporter.errors[1].lexeme = "m"
                /\ reporter.output = <<"1">>

C8_Witness ==
    /\ Finished
    /\ source = SuperChain
    /\ reporter.output = <<"A", "5">>
    /\ Len(interpreter.classes) = 3
    /\ interpreter.instances[1].langClass = 3

\* The class of the given name, as the reference held in globals.
ClassNamed(name) == interpreter.envs[globals].values[name].ref

\* C9: calling a class makes a new instance of the callee with an empty field
\* map; the initializer found by findMethod("init"), the class's own or an
\* inherited one, is invoked exactly once, bound to the new instance, with
\* the arguments; the value of the call is the new instance; the call
\* requires as many arguments as that initializer has parameters, or none
\* without an initializer.  P(7), Q(8) (Q inherits P's init) and E() (no
\* init) each make one instance: init prints its argument once and sets x on
\* the new instance, E's instance has no field, and P(1, 2) is refused.
C9_ClassCall ==
    (Finished /\ source = ClassInit) =>
        /\ reporter.output = <<"7", "7", "8", "8", "<instanceof E>">>
        /\ Messages(reporter) = <<"Expected 1 arguments but got 2.">>
        /\ interpreter.instances =
              <<[langClass |-> ClassNamed("P"),
                 fields |-> MapSet(EmptyMap, "x", NumberLiteral(IntNum(7)))],
                [langClass |-> ClassNamed("Q"),
                 fields |-> MapSet(EmptyMap, "x", NumberLiteral(IntNum(8)))],
                [langClass |-> ClassNamed("E"), fields |-> EmptyMap]>>
        /\ interpreter.envs[globals].values["p"].t = "Instance"
        /\ interpreter.envs[globals].values["p"].ref = 1

C9_Witness ==
    /\ Finished
    /\ source = ClassInit
    /\ Len(interpreter.instances) = 3
    /\ interpreter.instances[3].fields = EmptyMap
    /\ reporter.output = <<"7", "7", "8", "8", "<instanceof E>">>

\* The instance held by the global variable of the given name.
InstanceNamed(name) == interpreter.instances[interpreter.envs[globals].values[name].ref]

\* C10: a property get returns the field when present, else the method found
\* through the class chain bound to the instance, else raises
\* "Undefined property 'X'."; a set always writes the field map: after
\* b.m = 3 a get of m on b returns 3 although the class chain defines m,
\* while another instance c of the class still gets the method.
C10_PropertyGetAndSet ==
    (Finished /\ source = Properties) =>
        /\ reporter.output = <<"2", "1", "3", "1">>
        /\ Messages(reporter) = <<"Undefined property 'nope'.">>
        /\ InstanceNamed("b").fields =
              MapSet(MapSet(EmptyMap, "f", NumberLiteral(IntNum(2))),
                     "m", NumberLiteral(IntNum(3)))
        /\ InstanceNamed("c").fields = EmptyMap

C10_Witness ==
    /\ Finished
    /\ source = Properties
    /\ "m" \in DOMAIN InstanceNamed("b").fields
    /\ findMethod(interpreter, InstanceNamed("b").langClass, "m") # 0
    /\ reporter.output = <<"2", "1", "3", "1">>

\* The value of the global variable of the given name.
Global(name) == interpreter.envs[globals].values[name]

\* C11: an initializer always yields the instance it is bound to: falling off
\* the end of init (P), a bare return in init (Q) and an explicit call
\* p.init() all return that instance, never nil, and no further instance is
\* made; a plain function that falls off its end returns nil.
C11_InitializerReturnsInstance ==
    (Finished /\ source = InitReturns) =>
        /\ reporter = [errors |-> <<>>,
                       output |-> <<"<instanceof P>", "<instanceof Q>", "nil", "1">>]
        /\ Len(interpreter.instances) = 2
        /\ Global("p").t = "Instance" /\ Global("q").t = "Instance"
        /\ Global("r").t = "Instance" /\ Global("r").ref = Global("p").ref
        /\ Global("s").t = "Instance" /\ Global("s").ref = Global("q").ref
        /\ Global("p").ref # Global("q").ref

C11_Witness ==
    /\ Finished
    /\ source = InitReturns
    /\ Global("s").t = "Instance"
    /\ Global("s").ref = 2
    /\ reporter.output[3] = "nil"

\* C12: for and/or the left operand is evaluated first and once; when it
\* decides the result the right operand is not evaluated and the result is
\* the Bool true (or) or false (and), not the left value; otherwise the right
\* operand is evaluated once and its value returned unchanged.  With t()
\* printing "t" and returning 1 and f() printing "f" and returning nil:
\* t() or f() prints t, true; f() and t() prints f, false; f() or t() prints
\* f, t, 1; t() and f() prints t, f, nil.
C12_ShortCircuit ==
    (Finished /\ source = ShortCircuit) =>
        reporter = [errors |-> <<>>,
                    output |-> <<"t", "true", "f", "false", "f", "t", "1",
                                 "t", "f", "nil">>]

C12_Witness ==
    /\ Finished
    /\ source = ShortCircuit
    /\ Len(reporter.output) = 10
    /\ reporter.output[2] = "true"
    /\ reporter.output[7] = "1"

\* C13: sub-expressions are evaluated left to right, in source order: the
\* operands of a binary operator left then right, the callee then the
\* arguments in order, and for an indexed assignment a()[(i())] = v() the
\* object, then the index, then the value, so the operands' prints appear in
\* that order.
C13_LeftToRightEvaluation ==
    Finished =>
        /\ source = EvalOrder =>
                reporter = [errors |-> <<>>,
                            output |-> <<"a", "b", "-1", "g", "a", "b", "-1">>]
        /\ source = IndexedSetOrder =>
                reporter = [errors |-> <<>>, output |-> <<"a", "i", "v">>]

\* C14: % on two numbers is the mathematical modulo: for a positive divisor
\* the result is in 0 .. divisor - 1, also for a negative dividend:
\* 17 % 5 = 2, (0 - 1) % 3 = 2, (0 - 7) % 3 = 2, 7 % 3 = 1.
C14_MathematicalModulo ==
    (Finished /\ source = Modulo) =>
        reporter = [errors |-> <<>>, output |-> <<"2", "2", "2", "1">>]

\* What the indexing programs print and the one runtime error each of them
\* ends with, given the message for an index that is not a Number.
IndexOutcomes(notNumber) ==
    (IndexInRange :> [output |-> <<"2", "i", "[1, 9, 3]">>,
                      message |-> "Index out of bounds."])
    @@ (IndexNegative :> [output |-> <<>>,
                          message |-> "Index must be a non-negative integer."])
    @@ (IndexFraction :> [output |-> <<>>,
                          message |-> "Index must be a non-negative integer."])
    @@ (IndexNotNumber :> [output |-> <<>>, message |-> notNumber])
    @@ (IndexStringOut :> [output |-> <<>>, message |-> "Index out of bounds."])
    @@ (IndexSetString :> [output |-> <<>>, message |-> "Only arrays can be indexed."])
    @@ (IndexOtherBase :> [output |-> <<>>,
                           message |-> "Only arrays and strings can be indexed."])
    @@ (IndexSetOut :> [output |-> <<>>, message |-> "Index out of bounds."])

IndexingAsExpected(notNumber) ==
    (Finished /\ source \in DOMAIN IndexOutcomes(notNumber)) =>
        /\ reporter.output = IndexOutcomes(notNumber)[source].output
        /\ Messages(reporter) = <<IndexOutcomes(notNumber)[source].message>>
        /\ reporter.errors[1].phase = "Runtime"
        /\ source = IndexInRange =>
                interpreter.arrays[Global("a").ref] =
                    <<NumberLiteral(IntNum(1)), NumberLiteral(IntNum(9)),
                      NumberLiteral(IntNum(3))>>

\* C15, as stated: an index that is not a non-negative integer Number, a
\* String index included, raises "Index must be a non-negative integer.".
C15_IndexingRulesAsStated == IndexingAsExpected("Index must be a non-negative integer.")

\* C15, amended: an index that is not a Number raises "Index must be a
\* number."; a negative or fractional Number raises "Index must be a
\* non-negative integer."; on an Array or a String an index >= its length
\* raises "Index out of bounds.", an in-range get returns the element or the
\* one-character String; an in-range set on an Array replaces exactly that
\* element; a set on a String raises "Only arrays can be indexed."; a get on
\* any other base raises "Only arrays and strings can be indexed.".
C15_IndexingRules == IndexingAsExpected("Index must be a number.")

C15_Witness ==
    /\ Finished
    /\ source = IndexNotNumber
    /\ Messages(reporter) = <<"Index must be a number.">>
    /\ Len(interpreter.arrays) = 1

\* The elements of the array held by the global variable of the given name.
ArrayNamed(name) == interpreter.arrays[Global(name).ref]

\* C16: arrays are shared by reference: after let b = a, after passing a to a
\* function and after storing it in a field, an indexed assignment made
\* through one reference is seen through all of them; a + b is a new array
\* of a's elements followed by b's, and an indexed assignment on it changes
\* neither a nor b.
C16_ArraysSharedByReference ==
    (Finished /\ source = ArraySharing) =>
        /\ reporter = [errors |-> <<>>,
                       output |-> <<"[1, 5]", "[7, 5]", "[8, 5]", "[0, 5, 8, 5]",
                                    "[8, 5]", "[8, 5]">>]
        /\ Global("b") = Global("a")
        /\ InstanceNamed("o").fields["f"] = Global("a")
        /\ Global("c").ref # Global("a").ref
        /\ ArrayNamed("a") = <<NumberLiteral(IntNum(8)), NumberLiteral(IntNum(5))>>
        /\ ArrayNamed("c") = <<NumberLiteral(IntNum(0)), NumberLiteral(IntNum(5)),
                                NumberLiteral(IntNum(8)), NumberLiteral(IntNum(5))>>

C16_Witness ==
    /\ Finished
    /\ source = ArraySharing
    /\ Len(interpreter.arrays) = 2
    /\ Len(ArrayNamed("c")) = 4
    /\ reporter.output[2] = "[7, 5]"

\* The environments made for calls of the global function of the given name:
\* those whose parent is the function's closure.
CallEnvironments(name) ==
    {e \in 1..Len(interpreter.envs) :
        /\ e # globals
        /\ interpreter.envs[e].enclosing = interpreter.functions[Global(name).ref].closure}

\* C17: a call of a value that is no Callable raises "Can only call functions
\* and classes."; a call with a wrong number of arguments raises "Expected N
\* arguments but got M." and the body is not executed; otherwise the body
\* runs in a fresh environment whose parent is the function's closure, the
\* i-th parameter bound to the i-th argument.  f(5, 3) runs the body of f once
\* with a = 5 and b = 3; f(1) is refused and makes no environment.
C17_CallChecks ==
    Finished =>
        /\ source = RuntimeErrorInCall =>
                Messages(reporter) = <<"Can only call functions and classes.">>
        /\ source = CallArity =>
                /\ reporter.output = <<"body", "2">>
                /\ Messages(reporter) = <<"Expected 2 arguments but got 1.">>
                /\ Len(interpreter.envs) = 2
                /\ CallEnvironments("f") = {2}
                /\ interpreter.envs[2].values =
                        MapSet(MapSet(EmptyMap, "a", NumberLiteral(IntNum(5))),
                               "b", NumberLiteral(IntNum(3)))

C17_Witness ==
    /\ Finished
    /\ source = CallArity
    /\ reporter.output = <<"body", "2">>
    /\ Len(reporter.errors) = 1
    /\ CallEnvironments("f") # {}

\* The 1-based line of the character at offset i of src: one more than the
\* number of newlines before it.
LineOf(src, i) == 1 + Cardinality({j \in 1..i : charAt(src, j - 1) = "\n"})

\* The 0-based offset within its line of the character at offset i of src.
ColumnOf(src, i) ==
    i - Cardinality({j \in 1..i : \E k \in j..i : charAt(src, k - 1) = "\n"})

\* The (line, column) order of the token sequence.
PositionsOrdered(tokens) ==
    \A k \in 1..(Len(tokens) - 1) :
        \/ tokens[k].line < tokens[k + 1].line
        \/ /\ tokens[k].line = tokens[k + 1].line
           /\ tokens[k].column <= tokens[k + 1].column

\* A step of scanTokens that adds a token: the token starts at the offset
\* `current` of the state before the step.
TokenPositioned ==
    (pc = "scan" /\ Len(lexer'.tokens) = Len(lexer.tokens) + 1) =>
        Bind(lexer'.tokens[Len(lexer'.tokens)], LAMBDA token :
            /\ token.line = LineOf(source, lexer.current)
            /\ token.column = ColumnOf(source, lexer.current)
            /\ token.column >= 0)

\* C18: every token's line is the 1-based line and its column the 0-based
\* offset within that line of the token's first character, never negative,
\* for every token kind, string literals spanning several lines included;
\* and the positions are non-decreasing along the token sequence.
C18_TokenPositions ==
    /\ [][TokenPositioned]_vars
    /\ [](PositionsOrdered(lexer.tokens))

\* The types of the tokens of a token sequence.
TokenTypes(tokens) == [k \in 1..Len(tokens) |-> tokens[k].type]

\* An iteration of the loop of scanTokens consumes at least one character; one
\* that reports a lexical error adds no token.
ScanStep ==
    (pc = "scan" /\ pc' = "scan") =>
        /\ lexer'.current > lexer.current
        /\ Len(reporter'.errors) > Len(reporter.errors) =>
                /\ lexer'.tokens = lexer.tokens
                /\ reporter'.errors[Len(reporter'.errors)].phase = "Lexical"

\* While scanTokens runs, `current` is at most one past the end of the source,
\* and short of the end the next call of scanToken returns with `current`
\* moved on: with ScanStep, the loop is left after at most Len(source) + 1
\* iterations.
ScanBounded ==
    pc = "scan" =>
        /\ lexer.current <= Len(source) + 1
        /\ ~end(source, lexer) =>
                scanToken(source, [lexer EXCEPT !.start = lexer.current]).lx.current
                    > lexer.current

\* The token sequence scanTokens returns: an Eof token last, and no other.
EofTerminated ==
    pc # "scan" =>
        /\ Len(lexer.tokens) >= 1
        /\ \A k \in 1..Len(lexer.tokens) :
                lexer.tokens[k].type = "Eof" <=> k = Len(lexer.tokens)

\* C19: scanTokens terminates for every source, and its token sequence ends
\* with an Eof token and holds no other; a lexical error is reported without
\* a token for the offending text and scanning goes on with the characters
\* that follow: `@ print 1; # "x` reports three lexical errors and still
\* delivers the tokens print, 1, ; and Eof.
C19_ScanTokensTotal ==
    /\ [](ScanBounded)
    /\ [][ScanStep]_vars
    /\ [](EofTerminated)
    /\ []((pc # "scan" /\ source = LexErrors) =>
            /\ IsPrefix(<<"Unexpected character.", "Unexpected character.",
                          "Unterminated string.">>, Messages(reporter))
            /\ TokenTypes(lexer.tokens) = <<"Print", "Number", "Semicolon", "Eof">>)

C19_Witness ==
    /\ pc = "parse"
    /\ source = LexErrors
    /\ Len(reporter.errors) = 3
    /\ \A k \in 1..3 : reporter.errors[k].phase = "Lexical"
    /\ Len(lexer.tokens) = 4

\* C20: the index between [ and ] may be any expression: a[E] parses to
\* GetIndexed(a, E) whatever the kind of E.  In
\* `let a = [1, 2]; let i = 0; print a[i + 1];` the third statement prints a
\* GetIndexed whose object is the variable a and whose index is the Binary
\* i + 1; no error is reported and the program prints 2.
C20_IndexIsAnyExpression ==
    (source = IndexExpression /\ pc \notin {"scan", "parse"}) =>
        /\ reporter.errors = <<>>
        /\ Len(statements) = 3
        /\ statements[3].k = "Print"
        /\ statements[3].expression.k = "GetIndexed"
        /\ statements[3].expression.object.k = "Variable"
        /\ statements[3].expression.index.k = "Binary"
        /\ Finished => reporter.output = <<"2">>

\* The statement kinds of a statement list.
Kinds(stmts) == [i \in 1..Len(stmts) |-> stmts[i].k]

\* C21: for (init; cond; inc) body is Block[init, While(cond, Block[body,
\* Expression(inc)])]; an omitted cond is the literal true, an omitted inc
\* leaves body as the while body, an omitted init drops the outer Block.
\* Hence init runs once, cond is tested before every iteration and inc runs
\* after body and before the next test: with init s(), cond c(i), inc n(i) and
\* body print "b" the output is s, c, b, n, c, b, n, c.
C21_ForDesugaring ==
    /\ (source = ForOrder /\ pc \notin {"scan", "parse"}) =>
        /\ Kinds(statements) = <<"Function", "Function", "Function", "Block">>
        /\ Kinds(statements[4].statements) = <<"Var", "While">>
        /\ statements[4].statements[2].condition.k = "Call"
        /\ statements[4].statements[2].body.k = "Block"
        /\ Kinds(statements[4].statements[2].body.statements) = <<"Print", "Expression">>
        /\ statements[4].statements[2].body.statements[2].expression.k = "Assign"
        /\ Finished =>
                /\ reporter.errors = <<>>
                /\ reporter.output = <<"s", "c", "b", "n", "c", "b", "n", "c">>
    /\ (source = ForBare /\ pc \notin {"scan", "parse"}) =>
        /\ Kinds(statements) = <<"Var", "While", "Print">>
        /\ statements[2].condition.k = "Binary"
        /\ statements[2].body.k = "Expression"
        /\ Finished => (reporter.errors = <<>> /\ reporter.output = <<"2">>)
    /\ (source = ForNoCond /\ pc \notin {"scan", "parse"}) =>
        /\ Kinds(statements) = <<"Function", "Print">>
        /\ Kinds(statements[1].body) = <<"Block">>
        /\ Kinds(statements[1].body[1].statements) = <<"Var", "While">>
        /\ statements[1].body[1].statements[2].condition.k = "Literal"
        /\ statements[1].body[1].statements[2].condition.value = BoolLiteral(TRUE)
        /\ Kinds(statements[1].body[1].statements[2].body.statements)
                = <<"Block", "Expression">>
        /\ Finished => (reporter.errors = <<>> /\ reporter.output = <<"0", "1", "2">>)

C21_Witness ==
    /\ Finished
    /\ source = ForOrder
    /\ Len(statements) = 4
    /\ statements[4].k = "Block"
    /\ Len(reporter.output) = 8

\* The expression of the i-th statement, an expression statement.
ExpressionOf(i) == statements[i].expression

\* `node` assigns target <operator> right to a target of kind `target`.
Rewrites(node, target, operator, right) ==
    /\ node.value.k = "Binary"
    /\ node.value.left.k = target
    /\ node.value.operator.type = operator
    /\ node.value.right.k = "Literal"
    /\ node.value.right.value = NumberLiteral(IntNum(right))

\* C22: the assignment targets are Variable -> Assign, Get -> Set and
\* GetIndexed -> SetIndexed, for =, for += -= *= /= (target = target op rhs)
\* and for postfix ++ / -- (target = target + 1 / target - 1); any other
\* left-hand side is the syntax error "Invalid assignment target."; = is
\* right-associative: a = b = 3 is Assign(a, Assign(b, 3)).
C22_AssignmentTargets ==
    /\ (source = AssignForms /\ pc \notin {"scan", "parse"}) =>
        /\ Len(statements) = 19
        /\ \A i \in 6..15 : statements[i].k = "Expression"
        /\ ExpressionOf(6).k = "Assign" /\ ExpressionOf(6).name.lexeme = "a"
        /\ ExpressionOf(6).value.k = "Assign" /\ ExpressionOf(6).value.name.lexeme = "b"
        /\ ExpressionOf(6).value.value.k = "Literal"
        /\ ExpressionOf(7).k = "Set" /\ ExpressionOf(7).value.k = "Literal"
        /\ ExpressionOf(8).k = "SetIndexed" /\ ExpressionOf(8).value.k = "Literal"
        /\ ExpressionOf(9).k = "Assign" /\ Rewrites(ExpressionOf(9), "Variable", "Plus", 2)
        /\ ExpressionOf(10).k = "Set" /\ Rewrites(ExpressionOf(10), "Get", "Minus", 1)
        /\ ExpressionOf(11).k = "SetIndexed"
        /\ Rewrites(ExpressionOf(11), "GetIndexed", "Star", 4)
        /\ ExpressionOf(12).k = "Assign" /\ Rewrites(ExpressionOf(12), "Variable", "Slash", 5)
        /\ ExpressionOf(13).k = "Assign" /\ Rewrites(ExpressionOf(13), "Variable", "Plus", 1)
        /\ ExpressionOf(14).k = "Set" /\ Rewrites(ExpressionOf(14), "Get", "Minus", 1)
        /\ ExpressionOf(15).k = "SetIndexed"
        /\ Rewrites(ExpressionOf(15), "GetIndexed", "Plus", 1)
        /\ Finished =>
                /\ reporter.errors = <<>>
                /\ reporter.output = <<"2", "3", "0", "[6, 8]">>
    /\ (Finished /\ source \in {InvalidTargetAssign, InvalidTargetCompound,
                                InvalidTargetPostfix}) =>
        /\ Messages(reporter) = <<"Invalid assignment target.">>
        /\ reporter.errors[1].phase = "Syntax"
        /\ reporter.output = <<>>

C22_Witness ==
    /\ Finished
    /\ source = AssignForms
    /\ Len(statements) = 19
    /\ ExpressionOf(15).k = "SetIndexed"
    /\ Len(reporter.output) = 4

\* The resolver is between two top-level statements, none rejected so far.
BetweenStatements == pc = "resolve" /\ reporter.errors = <<>>

\* C23: a return outside every function or method body is rejected with
\* "Cannot return from top-level code."; return <expr>; is rejected with
\* "Cannot return a value from an initializer." when the innermost enclosing
\* function is a method named init.  The enclosing-function tag is restored
\* on exit: between top-level statements it is undefined, a top-level return
\* after a function declaration is rejected, a valued return in init after a
\* nested function is rejected, and a valued return in a function nested
\* inside init is accepted.
C23_ReturnRules ==
    /\ BetweenStatements => resolver.currentFunction = "undefined"
    /\ (Finished /\ source \in {ReturnTopLevel, ReturnAfterFunction}) =>
        /\ Messages(reporter) = <<"Cannot return from top-level code.">>
        /\ reporter.output = <<>>
    /\ (Finished /\ source = ReturnValueInit) =>
        /\ Messages(reporter) = <<"Cannot return a value from an initializer.">>
        /\ reporter.output = <<>>
    /\ (Finished /\ source = ReturnNestedInInit) =>
        /\ reporter.errors = <<>>
        /\ reporter.output = <<"7">>

C23_Witness ==
    /\ Finished
    /\ source = ReturnAfterFunction
    /\ Len(statements) = 2
    /\ ip = 1
    /\ Len(reporter.errors) = 1

\* C24: `this` outside every class body is rejected with "Cannot use 'this'
\* outside of a class.", `super` outside every class with "Cannot use 'super'
\* outside of a class." and `super` in a class declared without a superclass
\* with "Cannot use 'super' in a class with no superclass.".  The
\* enclosing-class tag is restored when a class declaration ends: between
\* top-level statements it is undefined, `this` and `super` after a class
\* declaration are rejected, and in a method of a subclass super is accepted
\* after a nested class without superclass and rejected inside it.
C24_ThisAndSuperRules ==
    /\ BetweenStatements => resolver.currentClass = "undefined"
    /\ (Finished /\ source = ThisTopLevel) =>
        /\ Messages(reporter) = <<"Cannot use 'this' outside of a class.">>
        /\ ip = 1
    /\ (Finished /\ source = SuperTopLevel) =>
        /\ Messages(reporter) = <<"Cannot use 'super' outside of a class.">>
        /\ ip = 1
    /\ (Finished /\ source \in {SuperNoSuperclass, NestedNoSuper}) =>
        Messages(reporter) = <<"Cannot use 'super' in a class with no superclass.">>
    /\ (Finished /\ source = NestedClassRestore) =>
        /\ reporter.errors = <<>>
        /\ reporter.output = <<"2">>

C24_Witness ==
    /\ Finished
    /\ source = NestedClassRestore
    /\ reporter.output = <<"2">>
    /\ resolver.currentClass = "undefined"

\* C25: within one local scope a second declaration of a name (variable,
\* parameter, function or class) is rejected with "Variable with name 'X'
\* already declared in this scope.", and a read of a name in its own
\* initializer with "Cannot read local variable 'X' in its own initializer.";
\* after its define the name is readable (a function and a class may name
\* themselves in their bodies).  A redeclaration in a nested scope is
\* accepted, and at top level neither check applies: let a = 1;
\* let a = a + 1; is accepted and a is 2.
C25_DeclareAndDefine ==
    /\ BetweenStatements => resolver.scopes = <<>>
    /\ (Finished /\ source \in {RedeclareVar, RedeclareParam}) =>
        Messages(reporter) = <<"Variable with name 'a' already declared in this scope.">>
    /\ (Finished /\ source = RedeclareFunction) =>
        Messages(reporter) = <<"Variable with name 'f' already declared in this scope.">>
    /\ (Finished /\ source = RedeclareClass) =>
        Messages(reporter) = <<"Variable with name 'A' already declared in this scope.">>
    /\ (Finished /\ source = OwnInitializer) =>
        Messages(reporter) = <<"Cannot read local variable 'a' in its own initializer.">>
    /\ (Finished /\ source = ScopesAccepted) =>
        /\ reporter.errors = <<>>
        /\ reporter.output = <<"3", "2">>

C25_Witness ==
    /\ Finished
    /\ source = RedeclareParam
    /\ Len(reporter.errors) = 1
    /\ ip = 0

\* The arguments of the calls of kind `add` made after the last call of a kind
\* in `clears`, in call order.
SinceLastClear(calls, add, clears) ==
    Bind(Cardinality({i \in 1..Len(calls) :
                        \E j \in i..Len(calls) : calls[j].k \in clears}), LAMBDA last :
        Bind(SelectSeq(SubSeq(calls, last + 1, Len(calls)), LAMBDA c : c.k = add),
             LAMBDA added : [i \in 1..Len(added) |-> added[i].arg]))

\* C26: after any sequence of report, write, clearErrors, clearOutput and
\* clear calls, getErrors returns the errors reported since the last
\* clearErrors / clear in report order and getOutput the strings written
\* since the last clearOutput / clear in write order; succeeded() is the
\* negation of failed() and says that no error is held; report leaves the
\* output log and write the error log unchanged; a push on an array returned
\* by getErrors or getOutput does not change the Reporter.
C26_ReporterLogs ==
    pc = "reporter" =>
        /\ getErrors(reporter).items
                = SinceLastClear(statements, "report", {"clearErrors", "clear"})
        /\ getOutput(reporter).items
                = SinceLastClear(statements, "write", {"clearOutput", "clear"})
        /\ succeeded(reporter) = ~failed(reporter)
        /\ succeeded(reporter) = (getErrors(reporter).items = <<>>)

C26_Witness ==
    /\ pc = "reporter"
    /\ Len(statements) = 4
    /\ statements[1].k = "report"
    /\ statements[2].k = "clearErrors"
    /\ statements[3].k = "report"
    /\ statements[4].k = "getErrors"
    /\ Len(reporter.errors) = 1

\* C27: executeBlock restores the environment that was current before it on
\* every exit: normal completion, a runtime error, a return signal raised at
\* any depth inside the block.  After a call returns or fails the caller's
\* environment is current again (a block calls f, which returns from a block
\* inside a loop, and then reads its own x and y: 7), and between top-level
\* statements and when interpret has ended, with or without an error, the
\* current environment is the global one.
C27_EnvironmentRestored ==
    /\ pc \in {"interpret", "done", "thrown"} => interpreter.environment = globals
    /\ (Finished /\ source = ReturnUnwinds) =>
        /\ reporter.errors = <<>>
        /\ reporter.output = <<"7">>
    /\ (Finished /\ source = ErrorUnwinds) =>
        /\ Messages(reporter) = <<"Can only call functions and classes.">>
        /\ reporter.output = <<"5">>
        /\ Len(interpreter.envs) = 5

C27_Witness ==
    /\ Finished
    /\ source = ErrorUnwinds
    /\ Len(reporter.errors) = 1
    /\ Len(interpreter.envs) = 5
    /\ interpreter.environment = globals

\* The environments from env up its enclosing chain that bind name.
BindersOf(st, env, name) ==
    {e \in 1..env : name \in DOMAIN st.envs[e].values}

\* The nearest environment from env up the chain that binds name.
NearestBinder(st, env, name) ==
    CHOOSE e \in BindersOf(st, env, name) : \A f \in BindersOf(st, env, name) : f <= e

\* A step that calls assign(name, value) on an environment: when the name is
\* bound on the chain, the nearest binding takes the value, nothing else
\* changes and the call returns; when it is not, the call raises
\* "Undefined variable 'X'." and changes nothing.
AssignAsClaimed ==
    (pc = "environment" /\ statements' # statements) =>
        Bind(statements'[1], LAMBDA made :
            IF BindersOf(interpreter, made.env, made.name) # {}
            THEN /\ ~made.raised
                 /\ interpreter'.envs =
                        [interpreter.envs EXCEPT
                            ![NearestBinder(interpreter, made.env, made.name)].values =
                                MapSet(@, made.name, made.value)]
            ELSE /\ made.raised
                 /\ made.error.message = "Undefined variable '" \o made.name \o "'."
                 /\ interpreter'.envs = interpreter.envs)

\* C28: Environment.assign(name, v) updates the nearest binding of name along
\* the enclosing chain and returns normally whenever name is bound in the
\* environment or in one of its ancestors; it raises "Undefined variable
\* 'X'." only when no environment of the chain binds name, and then changes
\* no binding.
C28_AssignAlongChain == [][AssignAsClaimed]_vars

(***************************************************************************)
(* C29: the resolver and the evaluator agree on the scope structure.  For  *)
(* every program the resolver accepts, each read or write of an expression *)
(* resolved at depth d (a variable, this, super, and this at depth d - 1   *)
(* for a super expression) finds d ancestors of the current environment    *)
(* and the name bound in the ancestor at distance d, so that               *)
(* Environment.ancestor and Environment.getAt never raise "No enclosing    *)
(* environment found at the given distance." or "Undefined variable 'x' at *)
(* distance d.": no run ends with a plain Error rethrown by run, none is   *)
(* reported, and the programs that read and write through closures,        *)
(* methods, this and super at depths 1 to 3 finish with the values of the  *)
(* bindings the depths name.                                               *)
(***************************************************************************)
C29_ScopesAgree ==
    /\ pc # "thrown"
    /\ \A i \in 1..Len(reporter.errors) : reporter.errors[i].phase # "Error"
    /\ (source = ScopeAgreement /\ Finished) =>
          /\ reporter.errors = <<>>
          /\ reporter.output = <<"2">>
    /\ (source = BlockScopes /\ Finished) =>
          /\ reporter.errors = <<>>
          /\ reporter.output = <<"12">>
    /\ (source = NestedClassScopes /\ Finished) =>
          /\ reporter.errors = <<>>
          /\ reporter.output = <<"1">>

C29_Witness ==
    /\ source = ScopeAgreement
    /\ Finished
    /\ reporter.output = <<"2">>

\* The part of static scoping that concerns a later declaration: a function
\* declared in a block reads and writes the same variable before and after a
\* variable of the same name is declared in that block.
LaterDeclarationIgnored ==
    Finished =>
        /\ source = StaticRead =>
                reporter = [errors |-> <<>>, output |-> <<"global", "global", "block">>]
        /\ source = StaticWrite =>
                reporter = [errors |-> <<>>, output |-> <<"10", "2">>]
        /\ source = StaticLocal =>
                reporter = [errors |-> <<>>, output |-> <<"1", "1">>]

\* C30: scoping is static.  A variable reference inside a function body
\* denotes the same binding on every call, the one visible at the function's
\* declaration: a variable of the same name declared later in an enclosing
\* block changes neither what the function reads nor what it writes, so the
\* calls made before and after that declaration observe the same variable,
\* and a function declared where an inner block shadows an outer variable
\* reads the inner variable.
C30_StaticScoping ==
    /\ LaterDeclarationIgnored
    /\ (Finished /\ source = FunctionInShadow) =>
            reporter = [errors |-> <<>>, output |-> <<"2">>]

====
